---- MODULE Spec2Model ----
(***************************************************************************)
(* Model of the pump.fun sniper bot: the Position Monitor                  *)
(* (src/src/monitor/index.js, startPriceMonitoring / monitorTokenPrices),  *)
(* the part of the discovery side that creates positions (handleNewToken,  *)
(* startSimulationMode, simulatePriceMovement) and the RPC endpoint pool   *)
(* (utils/rpc: getHttpConnection, getWsConnection, markEndpointFailed).    *)
(*                                                                         *)
(* Numbers.  Prices are integers in units of 0.00001 SOL, so the entry     *)
(* price 0.0001 is 10.  Price multipliers are kept times ten (1.3 -> 13),  *)
(* and `priceRatio >= target` is  currentPrice * 10 >= target10 * buyPrice.*)
(* The price alphabet only holds values whose IEEE-754 quotient by the     *)
(* entry price is exact (1.0, 1.1, 2.0, 5.0), so the integer comparison    *)
(* is the comparison the JavaScript performs.                              *)
(***************************************************************************)
EXTENDS Integers, Sequences, FiniteSets, Bags, TLC

(***************************************************************************)
(* Bounds of the model                                                     *)
(***************************************************************************)
MaxTicks == 3        \* timer firings of the 5 s interval that are explored
MaxEvents == 1       \* creation events of the monitor specifications
MaxHandled == 2      \* creation events the Discovery Loop hands to handleNewToken
MaxCalls == 5        \* endpoint-pool calls explored in the pool specification
MaxRetries == 2      \* largest `retries` option given to a guarded call
MaxGuarded == 2      \* guarded calls made one after the other
MaxRestarts == 1     \* restarts of the Discovery Loop by the supervisory loop
MaxCycles == 3       \* polling cycles started after a poll interval
MaxErrors == 9       \* consecutive errors counted before the explored failure

(***************************************************************************)
(* Input alphabets                                                         *)
(***************************************************************************)
Prices == {11, 15, 20, 50}
BuyPrice == 10
TokenAmounts == {200}
Mints == {"mintA", "mintB"}

(***************************************************************************)
(* Configuration (src/src/config/index.js loadConfig).  DefaultConfig     *)
(* holds the defaults of loadConfig (targets times ten); FullExitConfig is *)
(* the README's arrangement in which the second target sells everything    *)
(* (SELL_PERCENTAGE_1=50, SELL_PERCENTAGE_2=100).  loadConfig reads five   *)
(* targets; monitorTokenPrices reads profitTarget1/2 and sellPercentage1/2 *)
(* only.                                                                   *)
(***************************************************************************)
DefaultConfig(sim) ==
  [simulationMode |-> sim,
   profitTarget1 |-> 13, sellPercentage1 |-> 15,
   profitTarget2 |-> 20, sellPercentage2 |-> 50,
   profitTarget3 |-> 30, sellPercentage3 |-> 15,
   profitTarget4 |-> 40, sellPercentage4 |-> 15,
   profitTarget5 |-> 80, sellPercentage5 |-> 5]

FullExitConfig(sim) ==
  [DefaultConfig(sim) EXCEPT !.sellPercentage1 = 50, !.sellPercentage2 = 100]

Configs == {DefaultConfig(s) : s \in BOOLEAN} \cup {FullExitConfig(s) : s \in BOOLEAN}

VARIABLES
  config,          \* the loaded configuration, fixed for the run
  activeTokens,    \* the Position Store: sequence of TokenPosition records
  ticks,           \* bag of the suspended invocations of monitorTokenPrices
  nTicks,          \* number of timer firings so far
  disc,            \* position of the discovery side inside handleNewToken
  nEvents,         \* creation events handled so far (simulation: `index`)
  simTimer,        \* simulation: per position, a price update is scheduled
  sequential,      \* scheduling: a tick never starts while another is suspended
  watch,           \* ghost: index of the position that is observed
  hist,            \* ghost: completed visits of position `watch` (sequential runs)
  sellCount,       \* ghost: successful sells of position `watch`, per tier
  httpIndex,       \* utils/rpc: round-robin cursor of the HTTP list
  wsIndex,         \* utils/rpc: round-robin cursor of the WebSocket list
  failedEndpoints, \* utils/rpc: the failed set
  hasAlchemyRpc,   \* environment: ALCHEMY_RPC_URL is set
  hasAlchemyWs,    \* environment: ALCHEMY_WS_URL is set
  nCalls,          \* pool calls made so far
  marks,           \* ghost: urls marked failed since the last get*Connection
  nMarks,          \* ghost: markEndpointFailed calls since the last get*Connection
  lastCall,        \* ghost: the last pool call and its result
  call,            \* utils/rpc retryRpc: the guarded call in progress
  nGuarded,        \* guarded calls started so far
  loopPc,          \* where the discovery task (startTokenMonitor) is suspended
  consecutiveErrors, \* startTokenMonitor: errors counted by the supervisory loop
  poll,            \* monitorProgramViaHttp: its local variables
  obs              \* ghost: what the discovery task has done in this run / cycle

monitorVars == <<config, activeTokens, ticks, nTicks, disc, nEvents, simTimer,
                 sequential, watch, hist, sellCount>>
poolVars == <<httpIndex, wsIndex, failedEndpoints, hasAlchemyRpc, hasAlchemyWs,
              nCalls, marks, nMarks, lastCall>>
guardVars == <<call, nGuarded>>
discoveryVars == <<loopPc, consecutiveErrors, poll, obs>>
vars == <<config, activeTokens, ticks, nTicks, disc, nEvents, simTimer,
          sequential, watch, hist, sellCount, httpIndex, wsIndex, failedEndpoints, hasAlchemyRpc,
          hasAlchemyWs, nCalls, marks, nMarks, lastCall, call, nGuarded,
          loopPc, consecutiveErrors, poll, obs>>

(***************************************************************************)
(* TokenPosition (monitor/index.js:23-39).  status is <<"Active">>,        *)
(* <<"Sold", n>> for the template string `Sold ${n}%`, or <<"Fully Sold">>.*)
(***************************************************************************)
TokenPosition(mintAddress, buyPrice, tokenAmount) ==
  [mintAddress |-> mintAddress,
   buyPrice |-> buyPrice,
   tokenAmount |-> tokenAmount,
   currentPrice |-> buyPrice,
   soldPercentage |-> 0,
   status |-> <<"Active">>]

IdleDisc == [pc |-> "idle", mint |-> "none"]

\* Ghost record of a pool call: the function called, the url it returned (or
\* was given), how often it cleared the failed set, and whether it is the first
\* get*Connection after every endpoint of its list was marked failed once.
Call(op, url, resets, allMarked) ==
  [op |-> op, url |-> url, resets |-> resets, allMarked |-> allMarked]

NoCall == Call("none", "none", 0, FALSE)

\* An error thrown by a guarded operation: the class of the failure and the
\* text of err.message, kept as the sequence of its words and phrases.
Error(class, message) == [class |-> class, message |-> message]

NoError == Error("none", <<>>)

\* The state of one retryRpc call chain (utils/rpc 141-178): where it is, the
\* options of the innermost recursive call (retries, delayMs, factor,
\* connection: the url of the connection option, "none" without one), and
\* ghosts: the options of the outermost call, the number of invocations of
\* fn, the delays waited so far, the last error caught and whether
\* isRateLimitError accepted it.
Guarded(pc, retries, delayMs, factor, connection) ==
  [pc |-> pc, retries |-> retries, delayMs |-> delayMs, factor |-> factor,
   connection |-> connection,
   maxRetries |-> retries, initialDelay |-> delayMs,
   invocations |-> 0, delays |-> <<>>, err |-> NoError, retryable |-> FALSE]

NoGuarded == Guarded("idle", 0, 0, 0, "none")

InitGuard ==
  /\ call = NoGuarded
  /\ nGuarded = 0

(***************************************************************************)
(* Discovery Loop: constants of monitorProgramViaHttp and the values the   *)
(* RPC node is seen to return.                                             *)
(***************************************************************************)
POLL_INTERVAL_MS == 10000
RecentWindowMs == 60000
AccountsPerPoll == 3
CacheLimit == 100
AccountDelayMs == 200
TransactionDelayMs == 100
ErrorDelayMs == 5000
BaseBackoffMs == 5000
MaxBackoffMs == 60000

Slots == {10, 20}
SigInfos == {[signature |-> "sigA", slot |-> 20], [signature |-> "sigB", slot |-> 30]}
Signatures == {si.signature : si \in SigInfos}
Accounts == {"acct1", "acct2", "acct3", "acct4"}
WatchedAccount == "acct1"

\* Time since an account was recorded in recentAccounts, in ms; Expired stands
\* for every age above the window and for an account that was never recorded
\* (`recentAccounts.get(pubkeyStr) || 0` against Date.now()).
Expired == RecentWindowMs + 1

\* The local variables of monitorProgramViaHttp (646-655, 661, 679, 711-712)
\* and its two loop positions.  recentAccounts holds ages instead of
\* timestamps; elapsed is the time since `now` was read at 711.
Poll(lastCheckedSlot, latestSlot, processedSignatures, recentAccounts) ==
  [lastCheckedSlot |-> lastCheckedSlot,
   latestSlot |-> latestSlot,
   processedSignatures |-> processedSignatures,
   recentAccounts |-> recentAccounts,
   programTransactions |-> <<>>,
   sigPos |-> 0,
   accountsToCheck |-> <<>>,
   acctPos |-> 0,
   elapsed |-> 0]

NewPoll == Poll(0, 0, <<>>, [a \in Accounts |-> Expired])

\* Ghost: the last RPC the task awaited and whether it resolved; the
\* signatures whose detail fetch was started, and those handed to
\* handleNewToken, in this run of monitorProgramViaHttp; for the current
\* cycle whether a signature list
\* was requested, the tip marker the scan compares with, and the number of
\* transactions whose handling failed; the backoff last applied and the
\* numbers of cycles started after a poll interval, of runs started and of
\* buyToken calls that resolved, since start-up; the time since the
\* signatures of the watched account were last requested, in ms, over all
\* runs (Expired for never or longer than the window).
Obs(rpc, ok, fetches, handled, requested, marker, failures, retryDelay, cycles, runs, buys, sinceQuery) ==
  [rpc |-> rpc, ok |-> ok, fetches |-> fetches, handled |-> handled,
   requested |-> requested, marker |-> marker, failures |-> failures,
   retryDelay |-> retryDelay, cycles |-> cycles, runs |-> runs, buys |-> buys,
   sinceQuery |-> sinceQuery]

NoObs == Obs("none", TRUE, <<>>, <<>>, FALSE, 0, 0, 0, 0, 0, 0, Expired)

InitDiscovery ==
  /\ loopPc = "start"
  /\ consecutiveErrors = 0
  /\ poll = NewPoll
  /\ obs = NoObs

(***************************************************************************)
(* Tier tests and sell amounts of monitorTokenPrices (lines 561, 565, 593, *)
(* 597-598).                                                               *)
(***************************************************************************)
Tier1Hit(token) ==
  /\ token.soldPercentage < config.sellPercentage1
  /\ token.currentPrice * 10 >= config.profitTarget1 * token.buyPrice

Tier2Hit(token) ==
  /\ token.soldPercentage < config.sellPercentage2
  /\ token.currentPrice * 10 >= config.profitTarget2 * token.buyPrice

\* The if / else-if chain of lines 561 and 593: the target whose branch is
\* taken, 0 when neither is.
ChosenTierSecondFirst(token) ==
  IF Tier2Hit(token) THEN 2 ELSE IF Tier1Hit(token) THEN 1 ELSE 0

ChosenTier(token) ==
  IF Tier1Hit(token) THEN 1 ELSE IF Tier2Hit(token) THEN 2 ELSE 0

SellAmount1(token) == (token.tokenAmount * config.sellPercentage1) \div 100

SellAmount2NoSubtract(token) == (token.tokenAmount * config.sellPercentage2) \div 100

SellAmount2(token) ==
  (token.tokenAmount * (config.sellPercentage2 - token.soldPercentage)) \div 100

(***************************************************************************)
(* The `for (const token of activeTokens)` loop with its skip of fully     *)
(* sold tokens (lines 532-536): the first index >= i that is visited, or 0 *)
(* when the iteration is over.  The array iterator re-reads the length on  *)
(* every step, so positions pushed during a suspended tick are visited.    *)
(***************************************************************************)
NextIdx(tokens, i) ==
  LET cand == {j \in i..Len(tokens) : tokens[j].soldPercentage < 100}
  IN IF cand = {} THEN 0 ELSE CHOOSE j \in cand : \A k \in cand : j <= k

\* A suspended invocation: where it waits (pc), the index of the position it
\* is visiting, the price it fetched, the quantity it passed to sellToken and
\* (ghost) soldPercentage when it evaluated the targets and the number of
\* sells it has issued for this position.
Tick(pc, i, price, sellAmount, trigSold, sells) ==
  [pc |-> pc, i |-> i, price |-> price, sellAmount |-> sellAmount,
   trigSold |-> trigSold, sells |-> sells]

\* Where a real-mode tick goes after leaving index i: the price fetch of the
\* next visited position (line 543), or the end of the invocation.
Advance(tokens, i) ==
  LET n == NextIdx(tokens, i + 1)
  IN IF n = 0 THEN EmptyBag
     ELSE SetToBag({Tick("price", n, 0, 0, 0, 0)})

\* Ghost record of one completed visit of a position by a tick: the price the
\* tick worked with (0: the refresh failed), the tier whose sell it issued
\* (0: none), whether that sell succeeded, the quantity, and soldPercentage
\* at the trigger and when the visit ended.
Visit(price, tier, ok, amount, before, after) ==
  [price |-> price, tier |-> tier, ok |-> ok, amount |-> amount,
   soldBefore |-> before, soldAfter |-> after]

\* The visits are recorded when ticks do not overlap (a simulation-mode tick
\* has no await, so it never overlaps).  The visit v of position i is appended
\* to the record of the watched position.
Recording == sequential \/ config.simulationMode

Record(i, v) == IF Recording /\ i = watch THEN Append(hist, v) ELSE hist

\* A successful sell of tier `tier` for position i is counted.
Count(i, tier) ==
  IF i = watch THEN [sellCount EXCEPT ![tier] = @ + 1] ELSE sellCount

InitMonitor ==
  /\ config \in Configs
  /\ activeTokens = <<>>
  /\ ticks = EmptyBag
  /\ nTicks = 0
  /\ disc = IdleDisc
  /\ nEvents = 0
  /\ simTimer = <<>>
  /\ watch \in 1..MaxEvents
  /\ hist = <<>>
  /\ sellCount = <<0, 0>>

InitPool ==
  /\ httpIndex = 0
  /\ wsIndex = 0
  /\ failedEndpoints = {}
  /\ hasAlchemyRpc \in BOOLEAN
  /\ hasAlchemyWs \in BOOLEAN
  /\ nCalls = 0
  /\ marks = {}
  /\ nMarks = 0
  /\ lastCall = NoCall

\* The monitor specifications run with no premium endpoint configured.  In
\* Init the timer may fire while earlier ticks are suspended, as setInterval
\* does; InitSeq is the schedule in which every tick ends within 5 s.
Init ==
  /\ InitMonitor
  /\ InitPool
  /\ InitGuard
  /\ InitDiscovery
  /\ ~hasAlchemyRpc
  /\ ~hasAlchemyWs
  /\ sequential = FALSE

InitSeq ==
  /\ InitMonitor
  /\ InitPool
  /\ InitGuard
  /\ InitDiscovery
  /\ ~hasAlchemyRpc
  /\ ~hasAlchemyWs
  /\ sequential = TRUE

(***************************************************************************)
(* Position Monitor, real mode.  startPriceMonitoring (506-517) fires      *)
(* monitorTokenPrices every 5 s without waiting for the previous           *)
(* invocation, so several invocations can be suspended at once; `ticks`    *)
(* holds them.  Suspension points are the two awaits:                      *)
(* trader.getTokenPrice (543) and trader.sellToken (579, 612).             *)
(***************************************************************************)
TickStartAnyMode ==
  /\ loopPc # "exited"
  /\ nTicks < MaxTicks
  /\ sequential => ticks = EmptyBag
  /\ nTicks' = nTicks + 1
  /\ ticks' = ticks (+) Advance(activeTokens, 0)
  /\ UNCHANGED <<config, activeTokens, disc, nEvents, simTimer, hist, watch,
               sequential, sellCount>>
  /\ UNCHANGED poolVars
  /\ UNCHANGED guardVars
  /\ UNCHANGED discoveryVars

\* Timer fires: lines 527-536 run up to the first await.  The timer dies with
\* the process (index.js:74-77).
TickStart ==
  /\ ~config.simulationMode
  /\ loopPc # "exited"
  /\ nTicks < MaxTicks
  /\ sequential => ticks = EmptyBag
  /\ nTicks' = nTicks + 1
  /\ ticks' = ticks (+) Advance(activeTokens, 0)
  /\ UNCHANGED <<config, activeTokens, disc, nEvents, simTimer, hist, watch,
               sequential, sellCount>>
  /\ UNCHANGED poolVars
  /\ UNCHANGED guardVars
  /\ UNCHANGED discoveryVars

\* getTokenPrice resolves with p: lines 548-566 / 593-598 run up to the
\* await of sellToken, or to the next position when no target is hit.
PriceOk(tk, p) ==
  /\ tk.pc = "price"
  /\ LET i == tk.i
         token == [activeTokens[i] EXCEPT !.currentPrice = p]
         tokens == [activeTokens EXCEPT ![i] = token]
         rest == ticks (-) SetToBag({tk})
     IN /\ activeTokens' = tokens
        /\ IF ChosenTier(token) = 1
           THEN /\ ticks' = rest (+) SetToBag({Tick("sell1", i, p,
                               SellAmount1(token), token.soldPercentage, 1)})
                /\ hist' = hist
           ELSE IF ChosenTier(token) = 2
           THEN /\ ticks' = rest (+) SetToBag({Tick("sell2", i, p,
                               SellAmount2(token), token.soldPercentage, 1)})
                /\ hist' = hist
           ELSE /\ ticks' = rest (+) Advance(tokens, i)
                /\ hist' = Record(i,
                             Visit(p, 0, TRUE, 0, token.soldPercentage,
                                   token.soldPercentage))
  /\ UNCHANGED <<config, nTicks, disc, nEvents, simTimer, watch, sequential, sellCount>>
  /\ UNCHANGED poolVars
  /\ UNCHANGED guardVars
  /\ UNCHANGED discoveryVars

PriceFailAborts(tk) ==
  /\ tk.pc = "price"
  /\ LET i == tk.i
     IN /\ ticks' = ticks (-) SetToBag({tk})
        /\ hist' = Record(i,
                     Visit(0, 0, FALSE, 0, activeTokens[i].soldPercentage,
                           activeTokens[i].soldPercentage))
  /\ UNCHANGED <<config, activeTokens, nTicks, disc, nEvents, simTimer, watch,
               sequential, sellCount>>
  /\ UNCHANGED poolVars
  /\ UNCHANGED guardVars
  /\ UNCHANGED discoveryVars

\* getTokenPrice rejects: the catch at 627-629, then the next position.
PriceFail(tk) ==
  /\ tk.pc = "price"
  /\ LET i == tk.i
     IN /\ ticks' = (ticks (-) SetToBag({tk})) (+) Advance(activeTokens, i)
        /\ hist' = Record(i,
                     Visit(0, 0, FALSE, 0, activeTokens[i].soldPercentage,
                           activeTokens[i].soldPercentage))
  /\ UNCHANGED <<config, activeTokens, nTicks, disc, nEvents, simTimer, watch,
               sequential, sellCount>>
  /\ UNCHANGED poolVars
  /\ UNCHANGED guardVars
  /\ UNCHANGED discoveryVars

\* The assignments after a sell: lines 587-588 (first target) and 620-621
\* (second target).
AfterSell(token, tier) ==
  IF tier = 1
  THEN [token EXCEPT !.soldPercentage = config.sellPercentage1,
                     !.status = <<"Sold", config.sellPercentage1>>]
  ELSE [token EXCEPT !.soldPercentage = config.sellPercentage2,
                     !.status = <<"Fully Sold">>]

TierOf(pc) == IF pc = "sell1" THEN 1 ELSE 2

\* Where the tick goes once the branch of a target has run: both branches
\* belong to one if / else-if chain, so control leaves the chain and the loop
\* moves to the next position.
AfterBranchFallThrough(tokens, tk) ==
  IF tk.pc = "sell1" /\ Tier2Hit(tokens[tk.i])
  THEN SetToBag({Tick("sell2", tk.i, tk.price, SellAmount2(tokens[tk.i]),
                      tokens[tk.i].soldPercentage, tk.sells + 1)})
  ELSE Advance(tokens, tk.i)

AfterBranch(tokens, tk) == Advance(tokens, tk.i)

\* sellToken resolves.
SellOk(tk) ==
  /\ tk.pc \in {"sell1", "sell2"}
  /\ LET i == tk.i
         tier == TierOf(tk.pc)
         token == AfterSell(activeTokens[i], tier)
         tokens == [activeTokens EXCEPT ![i] = token]
     IN /\ activeTokens' = tokens
        /\ ticks' = (ticks (-) SetToBag({tk})) (+) AfterBranch(tokens, tk)
        /\ hist' = Record(i,
                     Visit(tk.price, tier, TRUE, tk.sellAmount,
                           tk.trigSold, token.soldPercentage))
        /\ sellCount' = Count(i, tier)
  /\ UNCHANGED <<config, nTicks, disc, nEvents, simTimer, watch, sequential>>
  /\ UNCHANGED poolVars
  /\ UNCHANGED guardVars
  /\ UNCHANGED discoveryVars

\* sellToken rejects: the catch at 590-592 / 623-625.
SellFailUpdates(tk) ==
  /\ tk.pc \in {"sell1", "sell2"}
  /\ LET i == tk.i
         tokens == [activeTokens EXCEPT ![i] = AfterSell(@, TierOf(tk.pc))]
     IN /\ activeTokens' = tokens
        /\ ticks' = (ticks (-) SetToBag({tk})) (+) AfterBranch(tokens, tk)
        /\ hist' = Record(i,
                     Visit(tk.price, TierOf(tk.pc), FALSE,
                           tk.sellAmount, tk.trigSold,
                           tokens[i].soldPercentage))
  /\ UNCHANGED <<config, nTicks, disc, nEvents, simTimer, watch,
               sequential, sellCount>>
  /\ UNCHANGED poolVars
  /\ UNCHANGED guardVars
  /\ UNCHANGED discoveryVars

SellFail(tk) ==
  /\ tk.pc \in {"sell1", "sell2"}
  /\ LET i == tk.i
     IN /\ ticks' = (ticks (-) SetToBag({tk})) (+) AfterBranch(activeTokens, tk)
        /\ hist' = Record(i,
                     Visit(tk.price, TierOf(tk.pc), FALSE,
                           tk.sellAmount, tk.trigSold,
                           activeTokens[i].soldPercentage))
  /\ UNCHANGED <<config, activeTokens, nTicks, disc, nEvents, simTimer, watch,
               sequential, sellCount>>
  /\ UNCHANGED poolVars
  /\ UNCHANGED guardVars
  /\ UNCHANGED discoveryVars

(***************************************************************************)
(* Discovery side, real mode: handleNewToken (457-498) as called from      *)
(* monitorProgramViaHttp (799-808).  Suspension points: isTokenSafe (459)  *)
(* and trader.buyToken (468).                                              *)
(***************************************************************************)
\* A creation event for mint m is handed to handleNewToken.
DiscoverToken(m) ==
  /\ ~config.simulationMode
  /\ disc.pc = "idle"
  /\ nEvents < MaxEvents
  /\ disc' = [pc |-> "filter", mint |-> m]
  /\ nEvents' = nEvents + 1
  /\ UNCHANGED <<config, activeTokens, ticks, nTicks, simTimer, hist, watch,
               sequential, sellCount>>
  /\ UNCHANGED poolVars
  /\ UNCHANGED guardVars
  /\ UNCHANGED discoveryVars

\* isTokenSafe returns false: lines 459-462.
FilterReject ==
  /\ ~config.simulationMode
  /\ disc.pc = "filter"
  /\ disc' = IdleDisc
  /\ UNCHANGED <<config, activeTokens, ticks, nTicks, nEvents, simTimer, hist, watch,
               sequential, sellCount>>
  /\ UNCHANGED poolVars
  /\ UNCHANGED guardVars
  /\ UNCHANGED discoveryVars

\* isTokenSafe returns true: lines 464-474, up to the await of buyToken.
FilterAccept ==
  /\ ~config.simulationMode
  /\ disc.pc = "filter"
  /\ disc' = [disc EXCEPT !.pc = "buy"]
  /\ UNCHANGED <<config, activeTokens, ticks, nTicks, nEvents, simTimer, hist, watch,
               sequential, sellCount>>
  /\ UNCHANGED poolVars
  /\ UNCHANGED guardVars
  /\ UNCHANGED discoveryVars

BuyOkReplaces(amount) ==
  /\ disc.pc = "buy"
  /\ activeTokens' = <<TokenPosition(disc.mint, BuyPrice, amount)>>
  /\ simTimer' = <<FALSE>>
  /\ disc' = IdleDisc
  /\ obs' = [obs EXCEPT !.buys = @ + 1]
  /\ UNCHANGED <<config, ticks, nTicks, nEvents, hist, watch, sequential, sellCount>>
  /\ UNCHANGED poolVars
  /\ UNCHANGED guardVars
  /\ UNCHANGED <<loopPc, consecutiveErrors, poll>>

\* buyToken resolves: lines 476-493.
BuyOk(amount) ==
  /\ disc.pc = "buy"
  /\ activeTokens' = Append(activeTokens, TokenPosition(disc.mint, BuyPrice, amount))
  /\ simTimer' = Append(simTimer, FALSE)
  /\ disc' = IdleDisc
  /\ obs' = [obs EXCEPT !.buys = @ + 1]
  /\ UNCHANGED <<config, ticks, nTicks, nEvents, hist, watch, sequential, sellCount>>
  /\ UNCHANGED poolVars
  /\ UNCHANGED guardVars
  /\ UNCHANGED <<loopPc, consecutiveErrors, poll>>

BuyFailAppends ==
  /\ disc.pc = "buy"
  /\ activeTokens' = Append(activeTokens, TokenPosition(disc.mint, BuyPrice, 0))
  /\ simTimer' = Append(simTimer, FALSE)
  /\ disc' = IdleDisc
  /\ UNCHANGED <<config, ticks, nTicks, nEvents, hist, watch, sequential, sellCount>>
  /\ UNCHANGED poolVars
  /\ UNCHANGED guardVars
  /\ UNCHANGED discoveryVars

\* buyToken rejects: lines 494-497, caught at 805-807.
BuyFail ==
  /\ disc.pc = "buy"
  /\ disc' = IdleDisc
  /\ UNCHANGED <<config, activeTokens, ticks, nTicks, nEvents, simTimer, hist, watch,
               sequential, sellCount>>
  /\ UNCHANGED poolVars
  /\ UNCHANGED guardVars
  /\ UNCHANGED discoveryVars

(***************************************************************************)
(* Simulation mode: startSimulationMode (97-195), simulatePriceMovement    *)
(* (202-263) and the simulation branches of monitorTokenPrices, which has  *)
(* no await in this mode, so a tick is one step.                           *)
(***************************************************************************)
TestTokens == <<"SUPER", "MOON", "TRFI", "DEFA", "ELOND">>

\* isTokenSafe (filter/index.js:9-86) evaluated on the five test tokens: the
\* risk score of 'ElonDoge Token' is 3 (elon, doge, token), the others stay
\* below 3.
IsTestTokenSafe(mint) == mint # "ELOND"

\* The delay at 134-135 elapses: lines 138-154, up to the await of isTokenSafe.
SimDiscover ==
  /\ config.simulationMode
  /\ disc.pc = "idle"
  /\ nEvents < MaxEvents
  /\ disc' = [pc |-> "filter", mint |-> TestTokens[(nEvents % Len(TestTokens)) + 1]]
  /\ nEvents' = nEvents + 1
  /\ UNCHANGED <<config, activeTokens, ticks, nTicks, simTimer, hist, watch,
               sequential, sellCount>>
  /\ UNCHANGED poolVars
  /\ UNCHANGED guardVars
  /\ UNCHANGED discoveryVars

\* isTokenSafe returns: lines 154-190.  The random tokenAmount is the input.
SimFilterDone(amount) ==
  /\ config.simulationMode
  /\ disc.pc = "filter"
  /\ disc' = IdleDisc
  /\ IF IsTestTokenSafe(disc.mint)
     THEN /\ activeTokens' = Append(activeTokens,
                                    TokenPosition(disc.mint, BuyPrice, amount))
          /\ simTimer' = Append(simTimer, TRUE)
     ELSE UNCHANGED <<activeTokens, simTimer>>
  /\ UNCHANGED <<config, ticks, nTicks, nEvents, hist, watch, sequential, sellCount>>
  /\ UNCHANGED poolVars
  /\ UNCHANGED guardVars
  /\ UNCHANGED discoveryVars

\* A scheduled price update fires (211-257); the new multiplier is the input.
SimPriceUpdate(i, p) ==
  /\ config.simulationMode
  /\ i \in 1..Len(activeTokens)
  /\ simTimer[i]
  /\ activeTokens' = [activeTokens EXCEPT ![i].currentPrice = p]
  /\ simTimer' = [simTimer EXCEPT ![i] =
                    /\ activeTokens[i].soldPercentage < 100
                    /\ p * 10 > activeTokens[i].buyPrice]
  /\ UNCHANGED <<config, ticks, nTicks, disc, nEvents, hist, watch, sequential, sellCount>>
  /\ UNCHANGED poolVars
  /\ UNCHANGED guardVars
  /\ UNCHANGED discoveryVars

\* What one simulation-mode tick does to one position (532-626).
SimVisitTier(token) ==
  IF token.soldPercentage >= 100 THEN -1 ELSE ChosenTier(token)

SimVisitToken(token) ==
  IF SimVisitTier(token) \in {1, 2} THEN AfterSell(token, SimVisitTier(token))
  ELSE token

SimVisitHist(token, h) ==
  LET tier == SimVisitTier(token)
  IN IF tier = -1 THEN h
     ELSE Append(h, Visit(token.currentPrice, tier, TRUE,
                          IF tier = 1 THEN SellAmount1(token)
                          ELSE IF tier = 2 THEN SellAmount2(token) ELSE 0,
                          token.soldPercentage,
                          SimVisitToken(token).soldPercentage))

SimTick ==
  /\ config.simulationMode
  /\ nTicks < MaxTicks
  /\ nTicks' = nTicks + 1
  /\ activeTokens' = [i \in 1..Len(activeTokens) |-> SimVisitToken(activeTokens[i])]
  /\ hist' = IF Recording /\ watch <= Len(activeTokens)
             THEN SimVisitHist(activeTokens[watch], hist) ELSE hist
  /\ sellCount' = IF watch <= Len(activeTokens)
                     /\ SimVisitTier(activeTokens[watch]) \in {1, 2}
                  THEN Count(watch, SimVisitTier(activeTokens[watch]))
                  ELSE sellCount
  /\ UNCHANGED <<config, ticks, disc, nEvents, simTimer, watch, sequential>>
  /\ UNCHANGED poolVars
  /\ UNCHANGED guardVars
  /\ UNCHANGED discoveryVars

MonitorNext ==
  \/ TickStart
  \/ \E tk \in BagToSet(ticks), p \in Prices : PriceOk(tk, p)
  \/ \E tk \in BagToSet(ticks) : PriceFail(tk)
  \/ \E tk \in BagToSet(ticks) : SellOk(tk)
  \/ \E tk \in BagToSet(ticks) : SellFail(tk)
  \/ \E m \in Mints : DiscoverToken(m)
  \/ FilterReject
  \/ FilterAccept
  \/ \E a \in TokenAmounts : BuyOk(a)
  \/ BuyFail
  \/ SimDiscover
  \/ \E a \in TokenAmounts : SimFilterDone(a)
  \/ \E i \in 1..MaxEvents, p \in Prices : SimPriceUpdate(i, p)
  \/ SimTick

(***************************************************************************)
(* Endpoint pool (utils/rpc).  The lists hold the premium url first when   *)
(* the environment sets it (`.filter(Boolean)` drops an unset one).        *)
(***************************************************************************)
HTTP_RPC_ENDPOINTS ==
  (IF hasAlchemyRpc THEN <<"https://alchemy">> ELSE <<>>) \o
  <<"https://api.mainnet-beta.solana.com", "https://solana-api.projectserum.com",
    "https://rpc.ankr.com/solana", "https://solana-mainnet.public.blastapi.io">>

WS_RPC_ENDPOINTS ==
  (IF hasAlchemyWs THEN <<"wss://alchemy">> ELSE <<>>) \o
  <<"wss://api.mainnet-beta.solana.com", "wss://rpc.ankr.com/solana/ws",
    "wss://solana-mainnet.public.blastapi.io">>

Range(seq) == {seq[k] : k \in 1..Len(seq)}

\* `list.filter(endpoint => !failedEndpoints.has(endpoint))`
AvailableUnfiltered(list, failed) == list

Available(list, failed) ==
  LET NotFailed(e) == e \notin failed IN SelectSeq(list, NotFailed)

\* The result of a selection: the url, the failed set and the cursor the call
\* leaves behind, and (ghost) the number of times it cleared the failed set.
Selected(url, failed, index, resets) ==
  [url |-> url, failed |-> failed, index |-> index, resets |-> resets]

RECURSIVE HttpSelectFirst(_, _, _)
HttpSelectFirst(failed, index, resets) ==
  LET availableEndpoints == Available(HTTP_RPC_ENDPOINTS, failed)
  IN IF Len(availableEndpoints) = 0
     THEN HttpSelectFirst({}, index, resets + 1)
     ELSE Selected(availableEndpoints[1], failed, index + 1, resets)

\* getHttpConnection (34-55).
RECURSIVE HttpSelect(_, _, _)
HttpSelect(failed, index, resets) ==
  LET availableEndpoints == Available(HTTP_RPC_ENDPOINTS, failed)
  IN IF Len(availableEndpoints) = 0
     THEN HttpSelect({}, index, resets + 1)
     ELSE Selected(availableEndpoints[(index % Len(availableEndpoints)) + 1],
                   failed, index + 1, resets)

\* getWsConnection (62-83).
WsSelectNoClear(failed, index, resets) ==
  LET availableEndpoints == Available(WS_RPC_ENDPOINTS, failed)
  IN IF Len(availableEndpoints) = 0
     THEN Selected(WS_RPC_ENDPOINTS[(index % Len(WS_RPC_ENDPOINTS)) + 1],
                   failed, index + 1, resets + 1)
     ELSE Selected(availableEndpoints[(index % Len(availableEndpoints)) + 1],
                   failed, index + 1, resets)

RECURSIVE WsSelect(_, _, _)
WsSelect(failed, index, resets) ==
  LET availableEndpoints == Available(WS_RPC_ENDPOINTS, failed)
  IN IF Len(availableEndpoints) = 0
     THEN WsSelect({}, index, resets + 1)
     ELSE Selected(availableEndpoints[(index % Len(availableEndpoints)) + 1],
                   failed, index + 1, resets)

\* markEndpointFailed (118-133): the failed set after the call.
FailedAfterMarkLate(failed, endpoint) ==
  IF endpoint = "unknown-endpoint" THEN failed
  ELSE LET added == failed \cup {endpoint}
       IN IF Cardinality(added) >= Len(HTTP_RPC_ENDPOINTS)
          THEN {endpoint} ELSE added

FailedAfterMark(failed, endpoint) ==
  IF endpoint = "unknown-endpoint" THEN failed
  ELSE LET added == failed \cup {endpoint}
       IN IF Cardinality(added) >= Len(HTTP_RPC_ENDPOINTS) - 1
          THEN {endpoint} ELSE added

\* Every endpoint of `list` was marked failed exactly once, and nothing else,
\* since the last get*Connection.
AllMarkedOnce(list) == marks = Range(list) /\ nMarks = Len(list)

GetHttpConnection ==
  /\ nCalls < MaxCalls
  /\ LET r == HttpSelect(failedEndpoints, httpIndex, 0)
     IN /\ failedEndpoints' = r.failed
        /\ httpIndex' = r.index
        /\ lastCall' = Call("http", r.url, r.resets, AllMarkedOnce(HTTP_RPC_ENDPOINTS))
  /\ nCalls' = nCalls + 1
  /\ marks' = {}
  /\ nMarks' = 0
  /\ UNCHANGED <<wsIndex, hasAlchemyRpc, hasAlchemyWs>>
  /\ UNCHANGED monitorVars
  /\ UNCHANGED guardVars
  /\ UNCHANGED discoveryVars

GetWsConnection ==
  /\ nCalls < MaxCalls
  /\ LET r == WsSelect(failedEndpoints, wsIndex, 0)
     IN /\ failedEndpoints' = r.failed
        /\ wsIndex' = r.index
        /\ lastCall' = Call("ws", r.url, r.resets, AllMarkedOnce(WS_RPC_ENDPOINTS))
  /\ nCalls' = nCalls + 1
  /\ marks' = {}
  /\ nMarks' = 0
  /\ UNCHANGED <<httpIndex, hasAlchemyRpc, hasAlchemyWs>>
  /\ UNCHANGED monitorVars
  /\ UNCHANGED guardVars
  /\ UNCHANGED discoveryVars

\* markEndpointFailed(connection); endpoint is getConnectionEndpoint(connection)
\* (106-112), "unknown-endpoint" for a connection without _rpcEndpoint.
MarkEndpointFailed(endpoint) ==
  /\ nCalls < MaxCalls
  /\ failedEndpoints' = FailedAfterMark(failedEndpoints, endpoint)
  /\ lastCall' = Call("mark", endpoint, 0, FALSE)
  /\ nCalls' = nCalls + 1
  /\ marks' = marks \cup {endpoint}
  /\ nMarks' = nMarks + 1
  /\ UNCHANGED <<httpIndex, wsIndex, hasAlchemyRpc, hasAlchemyWs>>
  /\ UNCHANGED monitorVars
  /\ UNCHANGED guardVars
  /\ UNCHANGED discoveryVars

PoolEndpoints == Range(HTTP_RPC_ENDPOINTS) \cup Range(WS_RPC_ENDPOINTS)

PoolNext ==
  \/ GetHttpConnection
  \/ GetWsConnection
  \/ \E e \in PoolEndpoints \cup {"unknown-endpoint"} : MarkEndpointFailed(e)

(***************************************************************************)
(* The guarded call, retryRpc (utils/rpc 141-178), and its classifier      *)
(* isRateLimitError (90-99).                                               *)
(***************************************************************************)
\* `errStr.includes(phrase)`, on the words and phrases of the message.
Includes(message, phrase) == \E k \in 1..Len(message) : message[k] = phrase

\* The errors a guarded operation is seen to throw: an HTTP status with its
\* reason phrase as the RPC client reports it, a client timeout, the
\* provider's refusal of a method, and two permanent errors.
Errors ==
  {Error("rate_limit", <<"429", "Too Many Requests">>),
   Error("rate_limit", <<"rate limit", "exceeded">>),
   Error("gateway_502", <<"502", "Bad Gateway">>),
   Error("gateway_503", <<"503", "Service Unavailable">>),
   Error("gateway_410", <<"410", "Gone">>),
   Error("timeout", <<"request", "timeout">>),
   Error("endpoint_disabled", <<"call or parameters have been disabled">>),
   Error("not_found", <<"Account", "not found">>),
   Error("malformed", <<"Invalid", "params">>)}

isRateLimitError(err) ==
  \/ Includes(err.message, "429")
  \/ Includes(err.message, "Too Many Requests")
  \/ Includes(err.message, "rate limit")
  \/ Includes(err.message, "timeout")
  \/ Includes(err.message, "call or parameters have been disabled")
  \/ Includes(err.message, "410")
  \/ Includes(err.message, "503")

\* The test of line 152.
ShouldRetryWhileLeft(err, retries) == retries > 0

ShouldRetryOnLast(err, retries) == isRateLimitError(err) /\ retries >= 0

ShouldRetry(err, retries) == isRateLimitError(err) /\ retries > 0

\* The delay of the recursive call (line 167).
NextDelayConstant(delayMs, factor) == delayMs

NextDelay(delayMs, factor) == delayMs * factor

RetryOptions == 0..MaxRetries
DelayOptions == {300, 500}
FactorOptions == {1, 2}
ConnectionOptions == {"none", "unknown-endpoint"} \cup Range(HTTP_RPC_ENDPOINTS)

\* retryRpc(fn, {retries, delayMs, factor, connection}) is called: line 149,
\* up to the await of fn().
RetryRpc(retries, delayMs, factor, connection) ==
  /\ call.pc \in {"idle", "returned", "thrown"}
  /\ nGuarded < MaxGuarded
  /\ nGuarded' = nGuarded + 1
  /\ call' = [Guarded("calling", retries, delayMs, factor, connection)
                EXCEPT !.invocations = 1]
  /\ UNCHANGED monitorVars
  /\ UNCHANGED discoveryVars
  /\ UNCHANGED poolVars

\* fn() resolves: its value is returned (149).
OpResolves ==
  /\ call.pc = "calling"
  /\ call' = [call EXCEPT !.pc = "returned"]
  /\ UNCHANGED nGuarded
  /\ UNCHANGED monitorVars
  /\ UNCHANGED discoveryVars
  /\ UNCHANGED poolVars

\* fn() rejects with err: lines 150-162 up to the await of the delay, or
\* lines 175-176.
OpRejects(err) ==
  /\ call.pc = "calling"
  /\ IF ShouldRetry(err, call.retries)
     THEN /\ call' = [call EXCEPT !.pc = "waiting",
                                  !.err = err,
                                  !.retryable = isRateLimitError(err),
                                  !.delays = Append(@, call.delayMs)]
          /\ failedEndpoints' =
               IF call.connection # "none"
               THEN FailedAfterMark(failedEndpoints, call.connection)
               ELSE failedEndpoints
     ELSE /\ call' = [call EXCEPT !.pc = "thrown",
                                  !.err = err,
                                  !.retryable = isRateLimitError(err)]
          /\ UNCHANGED failedEndpoints
  /\ UNCHANGED <<httpIndex, wsIndex, hasAlchemyRpc, hasAlchemyWs, nCalls, marks,
                 nMarks, lastCall, nGuarded>>
  /\ UNCHANGED monitorVars
  /\ UNCHANGED discoveryVars

\* The delay elapses: the recursive call of lines 165-171, up to the await of
\* fn().
DelayElapsed ==
  /\ call.pc = "waiting"
  /\ call' = [call EXCEPT !.pc = "calling",
                          !.retries = @ - 1,
                          !.delayMs = NextDelay(call.delayMs, call.factor),
                          !.invocations = @ + 1]
  /\ UNCHANGED nGuarded
  /\ UNCHANGED monitorVars
  /\ UNCHANGED discoveryVars
  /\ UNCHANGED poolVars

GuardNext ==
  \/ \E r \in RetryOptions, d \in DelayOptions, f \in FactorOptions,
        c \in ConnectionOptions : RetryRpc(r, d, f, c)
  \/ OpResolves
  \/ \E err \in Errors : OpRejects(err)
  \/ DelayElapsed

(***************************************************************************)
(* The guarded calls as the program issues them: a connection is taken     *)
(* from the pool (monitor 68, trader 74 and 168) and the operation that    *)
(* uses it is handed to retryRpc with a description and, at some call      *)
(* sites, a number of retries; delayMs and factor keep their defaults and  *)
(* no call site passes the connection (monitor 661-664, 683-689, 695-705,  *)
(* 732-738, 783-786; trader 82-85, 176-179).  The calls of the price and   *)
(* quote services (trader 37, 62, 132, 156, 205) use no pool connection.   *)
(***************************************************************************)
DefaultDelayMs == 500
DefaultFactor == 2

\* The retries that call sites ask for, as far as the bound admits them.
CallSiteRetries == {r \in {2, 3, 5, 7, 10} : r <= MaxRetries}

CallSiteConnect ==
  /\ call.pc \in {"idle", "returned", "thrown"}
  /\ GetHttpConnection

CallSiteRetryRpc(retries) ==
  /\ lastCall.op = "http"
  /\ RetryRpc(retries, DefaultDelayMs, DefaultFactor, "none")

CallSiteNext ==
  \/ CallSiteConnect
  \/ \E r \in CallSiteRetries : CallSiteRetryRpc(r)
  \/ OpResolves
  \/ \E err \in Errors : OpRejects(err)
  \/ DelayElapsed

(***************************************************************************)
(* Discovery Loop, real mode: the supervisory loop of startTokenMonitor    *)
(* (62-88) and monitorProgramViaHttp (642-830).  Every RPC is awaited      *)
(* through retryRpc, whose outcome is a value or a thrown error; no caller *)
(* passes the connection option, so these calls mark no endpoint.          *)
(***************************************************************************)
Min(a, b) == IF a < b THEN a ELSE b

RECURSIVE Pow(_, _)
Pow(b, e) == IF e = 0 THEN 1 ELSE b * Pow(b, e - 1)

BackoffUncapped(n) == (BaseBackoffMs * Pow(3, n - 1)) \div Pow(2, n - 1)

\* Math.min(5000 * Math.pow(1.5, consecutiveErrors - 1), 60000), lines 76 and
\* 86, in whole milliseconds.
Backoff(n) ==
  Min((BaseBackoffMs * Pow(3, n - 1)) \div Pow(2, n - 1), MaxBackoffMs)

\* d milliseconds pass.
Age(recentAccounts, d) ==
  [a \in Accounts |-> Min(recentAccounts[a] + d, Expired)]

\* An age d milliseconds later.
Later(age, d) == Min(age + d, Expired)

\* The skip test of line 766.
AlreadyProcessedSlotOnly(p, sigInfo) == sigInfo.slot <= p.lastCheckedSlot

AlreadyProcessedSignatureOnly(p, sigInfo) ==
  sigInfo.signature \in Range(p.processedSignatures)

AlreadyProcessed(p, sigInfo) ==
  \/ sigInfo.signature \in Range(p.processedSignatures)
  \/ sigInfo.slot <= p.lastCheckedSlot

\* Lines 771-777: the Set keeps insertion order, the first entry is deleted
\* once the size exceeds the limit.
RememberEvictsNewest(processedSignatures, signature) ==
  LET added == Append(processedSignatures, signature)
  IN IF Len(added) > CacheLimit THEN processedSignatures ELSE added

Remember(processedSignatures, signature) ==
  LET added == Append(processedSignatures, signature)
  IN IF Len(added) > CacheLimit THEN Tail(added) ELSE added

\* The synchronous part of the loop of 764-816 from index k on: either the
\* next signature whose detail is fetched (783), or the end of the cycle
\* (819-822; 756-760 for an empty list).
RECURSIVE Scan(_, _)
Scan(p, k) ==
  IF k > Len(p.programTransactions)
  THEN [poll |-> [p EXCEPT !.lastCheckedSlot = p.latestSlot, !.sigPos = 0],
        pc |-> "pollWait"]
  ELSE IF AlreadyProcessed(p, p.programTransactions[k])
  THEN Scan(p, k + 1)
  ELSE [poll |-> [p EXCEPT !.processedSignatures =
                             Remember(@, p.programTransactions[k].signature),
                           !.sigPos = k],
        pc |-> "tx"]

\* Ghost: the detail fetch that a scan result starts is recorded.
ObsScan(o, r) ==
  IF r.pc = "tx"
  THEN [o EXCEPT !.fetches =
          Append(@, r.poll.programTransactions[r.poll.sigPos].signature)]
  ELSE o

\* Ghost: d milliseconds pass; if an account result then requests the
\* signatures of the watched account (732), it counts as queried now.
ObsQuery(o, r, d) ==
  [o EXCEPT !.sinceQuery =
     IF r.pc = "acctSigs" /\ r.poll.accountsToCheck[r.poll.acctPos] = WatchedAccount
     THEN 0
     ELSE Later(@, d)]

\* Lines 712-719: the accounts not checked within the window, at most three.
AccountsToCheck(programAccounts, recentAccounts) ==
  LET NotRecent(a) == recentAccounts[a] > RecentWindowMs
      eligible == SelectSeq(programAccounts, NotRecent)
  IN SubSeq(eligible, 1, Min(Len(eligible), AccountsPerPoll))

\* The loop of 724-749 from index k on: the next account is recorded as
\* checked at `now` and its signatures are awaited (732), or the loop ends
\* and the collected signatures are scanned.
NextAccount(p, k) ==
  IF k > Len(p.accountsToCheck)
  THEN Scan([p EXCEPT !.acctPos = 0, !.elapsed = 0], 1)
  ELSE [poll |-> [p EXCEPT !.recentAccounts[p.accountsToCheck[k]] = p.elapsed,
                           !.acctPos = k],
        pc |-> "acctSigs"]

\* Signature lists the node returns for the program (limit 10) and for one
\* account (limit 3): empty, one entry, the same entry twice, two entries.
SigLists ==
  LET a == [signature |-> "sigA", slot |-> 20]
      b == [signature |-> "sigB", slot |-> 30]
  IN {<<>>, <<a>>, <<a, a>>, <<a, b>>}
AccountSigLists ==
  LET a == [signature |-> "sigA", slot |-> 20]
      b == [signature |-> "sigB", slot |-> 30]
  IN {<<>>, <<a>>, <<a, b>>}
AccountLists == {<<>>, <<"acct1", "acct2", "acct3", "acct4">>}
PollDelays == {POLL_INTERVAL_MS, RecentWindowMs}
TxDetail(kind, mint) == [kind |-> kind, mint |-> mint]
TxDetails ==
  {TxDetail("null", "none"), TxDetail("other", "none"), TxDetail("no_mint", "none")}
  \cup {TxDetail("creation", m) : m \in Mints}

\* Lines 68-69 and 643-661: a connection is taken from the pool and
\* monitorProgramViaHttp starts with fresh locals, up to the await of getSlot.
StartRun ==
  /\ LET r == HttpSelect(failedEndpoints, httpIndex, 0)
     IN /\ failedEndpoints' = r.failed
        /\ httpIndex' = r.index
        /\ lastCall' = Call("http", r.url, r.resets, AllMarkedOnce(HTTP_RPC_ENDPOINTS))
  /\ marks' = {}
  /\ nMarks' = 0
  /\ poll' = NewPoll
  /\ loopPc' = "slot"
  /\ obs' = [NoObs EXCEPT !.retryDelay = obs.retryDelay, !.cycles = obs.cycles,
                          !.runs = obs.runs + 1, !.buys = obs.buys,
                          !.sinceQuery = Later(obs.sinceQuery,
                                               IF loopPc = "backoff"
                                               THEN obs.retryDelay ELSE 0)]
  /\ UNCHANGED <<wsIndex, hasAlchemyRpc, hasAlchemyWs, nCalls>>
  /\ UNCHANGED monitorVars
  /\ UNCHANGED guardVars

StartTokenMonitor ==
  /\ ~config.simulationMode
  /\ loopPc = "start"
  /\ StartRun
  /\ UNCHANGED consecutiveErrors

SlotOkAlwaysScans(s) ==
  /\ loopPc = "slot"
  /\ poll' = [poll EXCEPT !.latestSlot = s]
  /\ loopPc' = "sigs"
  /\ obs' = [obs EXCEPT !.rpc = "getSlot", !.ok = TRUE, !.requested = TRUE,
                        !.marker = poll.lastCheckedSlot]
  /\ UNCHANGED consecutiveErrors
  /\ UNCHANGED monitorVars
  /\ UNCHANGED poolVars
  /\ UNCHANGED guardVars

\* getSlot resolves with slot s: lines 666-672 (first cycle) or 678-683.
SlotOk(s) ==
  /\ loopPc = "slot"
  /\ IF poll.lastCheckedSlot = 0
     THEN /\ poll' = [poll EXCEPT !.latestSlot = s, !.lastCheckedSlot = s]
          /\ loopPc' = "pollWait"
          /\ obs' = [obs EXCEPT !.rpc = "getSlot", !.ok = TRUE]
     ELSE /\ poll' = [poll EXCEPT !.latestSlot = s]
          /\ loopPc' = "sigs"
          /\ obs' = [obs EXCEPT !.rpc = "getSlot", !.ok = TRUE,
                                !.requested = TRUE,
                                !.marker = poll.lastCheckedSlot]
  /\ UNCHANGED consecutiveErrors
  /\ UNCHANGED monitorVars
  /\ UNCHANGED poolVars
  /\ UNCHANGED guardVars

SlotFailSwallowed ==
  /\ loopPc = "slot"
  /\ consecutiveErrors < MaxRestarts
  /\ loopPc' = "pollWait"
  /\ obs' = [obs EXCEPT !.rpc = "getSlot", !.ok = FALSE]
  /\ UNCHANGED <<consecutiveErrors, poll>>
  /\ UNCHANGED monitorVars
  /\ UNCHANGED poolVars
  /\ UNCHANGED guardVars

\* getSlot fails for good: the catch of 823-826, up to the await of the 5 s.
SlotFail ==
  /\ loopPc = "slot"
  /\ consecutiveErrors < MaxRestarts
  /\ loopPc' = "errorWait"
  /\ obs' = [obs EXCEPT !.rpc = "getSlot", !.ok = FALSE]
  /\ UNCHANGED <<consecutiveErrors, poll>>
  /\ UNCHANGED monitorVars
  /\ UNCHANGED poolVars
  /\ UNCHANGED guardVars

\* The poll interval has passed (670 / 759 / 822): the next cycle starts, up
\* to the await of getSlot.
PollWaitDone(d) ==
  /\ loopPc = "pollWait"
  /\ obs.cycles < MaxCycles
  /\ poll' = [poll EXCEPT !.recentAccounts = Age(@, d)]
  /\ loopPc' = "slot"
  /\ obs' = [obs EXCEPT !.requested = FALSE, !.failures = 0, !.cycles = @ + 1,
                        !.sinceQuery = Later(@, d)]
  /\ UNCHANGED consecutiveErrors
  /\ UNCHANGED monitorVars
  /\ UNCHANGED poolVars
  /\ UNCHANGED guardVars

\* The effect of a step that continues with the scan or account result r.
Continue(r, rpc, ok, d) ==
  /\ poll' = r.poll
  /\ loopPc' = r.pc
  /\ obs' = [ObsQuery(ObsScan(obs, r), r, d) EXCEPT !.rpc = rpc, !.ok = ok]

\* getSignaturesForAddress(programId) resolves with list: 756-783.
SigsOk(list) ==
  /\ loopPc = "sigs"
  /\ Continue(Scan([poll EXCEPT !.programTransactions = list], 1),
              "getSignaturesForAddress", TRUE, 0)
  /\ UNCHANGED consecutiveErrors
  /\ UNCHANGED monitorVars
  /\ UNCHANGED poolVars
  /\ UNCHANGED guardVars

\* getSignaturesForAddress(programId) fails for good: 690-696, up to the
\* await of getProgramAccounts.
SigsFail ==
  /\ loopPc = "sigs"
  /\ loopPc' = "accounts"
  /\ obs' = [obs EXCEPT !.rpc = "getSignaturesForAddress", !.ok = FALSE]
  /\ UNCHANGED poll
  /\ UNCHANGED consecutiveErrors
  /\ UNCHANGED monitorVars
  /\ UNCHANGED poolVars
  /\ UNCHANGED guardVars

\* getProgramAccounts resolves: 707-732.
AccountsOk(programAccounts) ==
  /\ loopPc = "accounts"
  /\ Continue(NextAccount([poll EXCEPT
                             !.accountsToCheck =
                                AccountsToCheck(programAccounts, poll.recentAccounts),
                             !.programTransactions = <<>>,
                             !.elapsed = 0], 1),
              "getProgramAccounts", TRUE, 0)
  /\ UNCHANGED consecutiveErrors
  /\ UNCHANGED monitorVars
  /\ UNCHANGED poolVars
  /\ UNCHANGED guardVars

\* getProgramAccounts fails for good: the catch of 750-753, then 756-760.
AccountsFail ==
  /\ loopPc = "accounts"
  /\ Continue(Scan([poll EXCEPT !.programTransactions = <<>>], 1),
              "getProgramAccounts", FALSE, 0)
  /\ UNCHANGED consecutiveErrors
  /\ UNCHANGED monitorVars
  /\ UNCHANGED poolVars
  /\ UNCHANGED guardVars

\* getSignaturesForAddress(account) resolves: 740-745, up to the 200 ms delay.
AcctSigsOk(list) ==
  /\ loopPc = "acctSigs"
  /\ poll' = [poll EXCEPT !.programTransactions = @ \o list]
  /\ loopPc' = "acctDelay"
  /\ obs' = [obs EXCEPT !.rpc = "getSignaturesForAccount", !.ok = TRUE]
  /\ UNCHANGED consecutiveErrors
  /\ UNCHANGED monitorVars
  /\ UNCHANGED poolVars
  /\ UNCHANGED guardVars

\* getSignaturesForAddress(account) fails for good: the catch of 746-748, then
\* the next account.
AcctSigsFail ==
  /\ loopPc = "acctSigs"
  /\ Continue(NextAccount(poll, poll.acctPos + 1), "getSignaturesForAccount", FALSE, 0)
  /\ UNCHANGED consecutiveErrors
  /\ UNCHANGED monitorVars
  /\ UNCHANGED poolVars
  /\ UNCHANGED guardVars

\* The 200 ms have passed: the next account.
AcctDelayDone ==
  /\ loopPc = "acctDelay"
  /\ Continue(NextAccount([poll EXCEPT
                             !.recentAccounts = Age(@, AccountDelayMs),
                             !.elapsed = @ + AccountDelayMs],
                          poll.acctPos + 1),
              obs.rpc, obs.ok, AccountDelayMs)
  /\ UNCHANGED consecutiveErrors
  /\ UNCHANGED monitorVars
  /\ UNCHANGED poolVars
  /\ UNCHANGED guardVars

\* getTransaction resolves with detail: null (788-790, no delay), a
\* transaction that is no creation or from which no mint can be extracted
\* (793-799, then the delay of 815), or a creation of mint detail.mint, which
\* is handed to handleNewToken (804), up to its await of isTokenSafe.
TxOk(detail) ==
  /\ loopPc = "tx"
  /\ IF detail.kind = "null"
     THEN /\ Continue(Scan(poll, poll.sigPos + 1), "getTransaction", TRUE, 0)
          /\ UNCHANGED <<disc, nEvents>>
     ELSE IF detail.kind = "creation"
     THEN /\ nEvents < MaxHandled
          /\ disc' = [pc |-> "filter", mint |-> detail.mint]
          /\ nEvents' = nEvents + 1
          /\ loopPc' = "handle"
          /\ obs' = [obs EXCEPT !.rpc = "getTransaction", !.ok = TRUE,
                                !.handled = Append(@,
                                   poll.programTransactions[poll.sigPos].signature)]
          /\ UNCHANGED poll
     ELSE /\ loopPc' = "txDelay"
          /\ obs' = [obs EXCEPT !.rpc = "getTransaction", !.ok = TRUE,
                                !.failures = IF detail.kind = "no_mint"
                                             THEN @ + 1 ELSE @]
          /\ UNCHANGED <<poll, disc, nEvents>>
  /\ UNCHANGED <<config, activeTokens, ticks, nTicks, simTimer, hist, watch,
                 sequential, sellCount>>
  /\ UNCHANGED consecutiveErrors
  /\ UNCHANGED poolVars
  /\ UNCHANGED guardVars

\* getTransaction fails for good: the catch of 810-812, then the delay of 815.
TxFailAborts ==
  /\ loopPc = "tx"
  /\ loopPc' = "errorWait"
  /\ obs' = [obs EXCEPT !.rpc = "getTransaction", !.ok = FALSE, !.failures = @ + 1]
  /\ UNCHANGED poll
  /\ UNCHANGED consecutiveErrors
  /\ UNCHANGED monitorVars
  /\ UNCHANGED poolVars
  /\ UNCHANGED guardVars

TxFail ==
  /\ loopPc = "tx"
  /\ loopPc' = "txDelay"
  /\ obs' = [obs EXCEPT !.rpc = "getTransaction", !.ok = FALSE, !.failures = @ + 1]
  /\ UNCHANGED poll
  /\ UNCHANGED consecutiveErrors
  /\ UNCHANGED monitorVars
  /\ UNCHANGED poolVars
  /\ UNCHANGED guardVars

\* handleNewToken has returned or thrown (804-807): the delay of 815 follows.
HandleReturn ==
  /\ loopPc = "handle"
  /\ disc.pc = "idle"
  /\ loopPc' = "txDelay"
  /\ UNCHANGED <<poll, obs>>
  /\ UNCHANGED consecutiveErrors
  /\ UNCHANGED monitorVars
  /\ UNCHANGED poolVars
  /\ UNCHANGED guardVars

\* The 100 ms have passed: the next signature, or the end of the cycle.
TxDelayDone ==
  /\ loopPc = "txDelay"
  /\ Continue(Scan([poll EXCEPT !.recentAccounts = Age(@, TransactionDelayMs)],
                   poll.sigPos + 1),
              obs.rpc, obs.ok, TransactionDelayMs)
  /\ UNCHANGED consecutiveErrors
  /\ UNCHANGED monitorVars
  /\ UNCHANGED poolVars
  /\ UNCHANGED guardVars

ErrorWaitDoneExits ==
  /\ loopPc = "errorWait"
  /\ loopPc' = "exited"
  /\ UNCHANGED <<consecutiveErrors, poll, obs>>
  /\ UNCHANGED monitorVars
  /\ UNCHANGED poolVars
  /\ UNCHANGED guardVars

\* The 5 s of line 826 have passed: the error is rethrown (827) and caught by
\* the supervisory loop (71-83), up to the await of the backoff (87).
ErrorWaitDone ==
  /\ loopPc = "errorWait"
  /\ consecutiveErrors' = consecutiveErrors + 1
  /\ loopPc' = "backoff"
  /\ obs' = [obs EXCEPT !.retryDelay = Backoff(consecutiveErrors + 1),
                        !.sinceQuery = Later(@, ErrorDelayMs)]
  /\ UNCHANGED poll
  /\ UNCHANGED monitorVars
  /\ UNCHANGED poolVars
  /\ UNCHANGED guardVars

\* The backoff has passed: the supervisory loop calls monitorProgramViaHttp
\* again (64-69).
BackoffDone ==
  /\ loopPc = "backoff"
  /\ StartRun
  /\ UNCHANGED consecutiveErrors

DiscoveryNext ==
  \/ StartTokenMonitor
  \/ \E s \in Slots : SlotOk(s)
  \/ SlotFail
  \/ \E d \in PollDelays : PollWaitDone(d)
  \/ \E list \in SigLists : SigsOk(list)
  \/ SigsFail
  \/ \E accts \in AccountLists : AccountsOk(accts)
  \/ AccountsFail
  \/ \E list \in AccountSigLists : AcctSigsOk(list)
  \/ AcctSigsFail
  \/ AcctDelayDone
  \/ \E detail \in TxDetails : TxOk(detail)
  \/ TxFail
  \/ FilterReject
  \/ FilterAccept
  \/ \E amount \in TokenAmounts : BuyOk(amount)
  \/ BuyFail
  \/ HandleReturn
  \/ TxDelayDone
  \/ ErrorWaitDone
  \/ BackoffDone

\* The pool on its own, called in any order, in each of the four environments.
InitPoolSpec ==
  /\ InitMonitor
  /\ config = DefaultConfig(FALSE)
  /\ watch = 1
  /\ sequential = FALSE
  /\ InitPool
  /\ InitGuard
  /\ InitDiscovery

PoolSpec == InitPoolSpec /\ [][PoolNext]_vars

\* The Discovery Loop in real mode, with the default configuration and no
\* premium endpoint.
InitDiscoverySpec ==
  /\ Init
  /\ config = DefaultConfig(FALSE)
  /\ watch = 1

DiscoverySpec == InitDiscoverySpec /\ [][DiscoveryNext]_vars

\* Guarded calls made one after the other, with every option and every error.
GuardSpec == InitPoolSpec /\ [][GuardNext]_vars

\* Both tasks of real mode together: the Discovery Loop under the supervisory
\* loop and the ticks of the Position Monitor, with every failure but one
\* signature, one slot, one mint and one price.
LiveNext ==
  \/ StartTokenMonitor
  \/ SlotOk(10)
  \/ SlotFail
  \/ PollWaitDone(POLL_INTERVAL_MS)
  \/ SigsOk(<<[signature |-> "sigA", slot |-> 20]>>)
  \/ SigsFail
  \/ AccountsOk(<<"acct2">>)
  \/ AccountsFail
  \/ AcctSigsOk(<<[signature |-> "sigA", slot |-> 20]>>)
  \/ AcctSigsFail
  \/ AcctDelayDone
  \/ TxOk(TxDetail("creation", "mintA"))
  \/ TxFail
  \/ FilterReject
  \/ FilterAccept
  \/ \E amount \in TokenAmounts : BuyOk(amount)
  \/ BuyFail
  \/ HandleReturn
  \/ TxDelayDone
  \/ ErrorWaitDone
  \/ BackoffDone
  \/ TickStart
  \/ \E tk \in BagToSet(ticks) : PriceOk(tk, 15)
  \/ \E tk \in BagToSet(ticks) : PriceFail(tk)
  \/ \E tk \in BagToSet(ticks) : SellOk(tk)
  \/ \E tk \in BagToSet(ticks) : SellFail(tk)

\* What the discovery task and a suspended tick wait for: an RPC or a timer.
DiscoveryStep == DiscoveryNext
TickStep ==
  \E tk \in BagToSet(ticks) :
    PriceOk(tk, 15) \/ PriceFail(tk) \/ SellOk(tk) \/ SellFail(tk)

\* Every awaited call settles (retryRpc gives up after its retries) and every
\* timer fires.
LiveSpec ==
  /\ InitDiscoverySpec
  /\ [][LiveNext]_vars
  /\ WF_vars(LiveNext /\ DiscoveryStep)
  /\ WF_vars(TickStart)
  /\ WF_vars(TickStep)

\* The whole program in either mode: in real mode the discovery task and the
\* ticks of the Position Monitor, in simulation mode the generators of
\* startSimulationMode and simulatePriceMovement and the ticks.  The
\* successful inputs of real mode are one signature, one slot and one mint;
\* the price is twice the buy price, which is above both profit targets.
ProgramPrices == {20}

ProgramNext ==
  \/ StartTokenMonitor
  \/ SlotOk(10)
  \/ SlotFail
  \/ PollWaitDone(POLL_INTERVAL_MS)
  \/ SigsOk(<<[signature |-> "sigA", slot |-> 20]>>)
  \/ SigsFail
  \/ AccountsOk(<<"acct1">>)
  \/ AccountsFail
  \/ AcctSigsOk(<<[signature |-> "sigA", slot |-> 20]>>)
  \/ AcctSigsFail
  \/ AcctDelayDone
  \/ TxOk(TxDetail("creation", "mintA"))
  \/ TxFail
  \/ FilterReject
  \/ FilterAccept
  \/ \E amount \in TokenAmounts : BuyOk(amount)
  \/ BuyFail
  \/ HandleReturn
  \/ TxDelayDone
  \/ ErrorWaitDone
  \/ BackoffDone
  \/ TickStart
  \/ \E tk \in BagToSet(ticks), p \in ProgramPrices : PriceOk(tk, p)
  \/ \E tk \in BagToSet(ticks) : PriceFail(tk)
  \/ \E tk \in BagToSet(ticks) : SellOk(tk)
  \/ \E tk \in BagToSet(ticks) : SellFail(tk)
  \/ SimDiscover
  \/ \E a \in TokenAmounts : SimFilterDone(a)
  \/ \E i \in 1..MaxEvents, p \in ProgramPrices : SimPriceUpdate(i, p)
  \/ SimTick

InitProgramSpec ==
  /\ Init
  /\ watch = 1

ProgramSpec == InitProgramSpec /\ [][ProgramNext]_vars

\* The guarded calls of the program, one after the other, with every error.
CallSiteSpec == InitPoolSpec /\ [][CallSiteNext]_vars

\* A run of monitorProgramViaHttp that has been polling for a while: it waits
\* for the next cycle (822) with the tip marker at slot 10 and with the
\* signatures of n earlier transactions in processedSignatures, oldest first,
\* n at or just below the limit of line 774.  The pool is as the one
\* getHttpConnection of line 68 left it.
OldSignature(k) == "old" \o ToString(k)
OldSignatures(n) == [k \in 1..n |-> OldSignature(k)]
CachedBefore == (CacheLimit - 2)..CacheLimit

InitCacheSpec ==
  /\ InitMonitor
  /\ config = DefaultConfig(FALSE)
  /\ watch = 1
  /\ sequential = FALSE
  /\ InitGuard
  /\ wsIndex = 0
  /\ hasAlchemyRpc = FALSE
  /\ hasAlchemyWs = FALSE
  /\ nCalls = 0
  /\ marks = {}
  /\ nMarks = 0
  /\ LET r == HttpSelect({}, 0, 0)
     IN /\ failedEndpoints = r.failed
        /\ httpIndex = r.index
        /\ lastCall = Call("http", r.url, r.resets, FALSE)
  /\ loopPc = "pollWait"
  /\ consecutiveErrors = 0
  /\ \E n \in CachedBefore : poll = Poll(10, 10, OldSignatures(n), NewPoll.recentAccounts)
  /\ obs = [NoObs EXCEPT !.runs = 1]

\* The cycles that follow: signature lists of up to two new transactions,
\* none of them a token creation, with every failure of getSlot and of
\* getTransaction.
CacheNext ==
  \/ \E s \in Slots : SlotOk(s)
  \/ SlotFail
  \/ PollWaitDone(POLL_INTERVAL_MS)
  \/ \E list \in SigLists : SigsOk(list)
  \/ TxOk(TxDetail("null", "none"))
  \/ TxOk(TxDetail("other", "none"))
  \/ TxFail
  \/ TxDelayDone
  \/ ErrorWaitDone
  \/ BackoffDone

CacheSpec == InitCacheSpec /\ [][CacheNext]_vars

\* The Discovery Loop later in a run whose cache is full: the oldest entry
\* is a transaction of the program (slot 20 or 30) whose detail was fetched
\* when the tip marker was below its slot, the 99 after it were fetched in
\* the cycles since.  The tip marker is at slot 10 or 20.  In the cycles
\* that follow getSlot never returns less than the marker and no call fails
\* in a way that ends the run.
InitEvictionSpec ==
  /\ InitMonitor
  /\ config = DefaultConfig(FALSE)
  /\ watch = 1
  /\ sequential = FALSE
  /\ InitGuard
  /\ wsIndex = 0
  /\ hasAlchemyRpc = FALSE
  /\ hasAlchemyWs = FALSE
  /\ nCalls = 0
  /\ marks = {}
  /\ nMarks = 0
  /\ LET r == HttpSelect({}, 0, 0)
     IN /\ failedEndpoints = r.failed
        /\ httpIndex = r.index
        /\ lastCall = Call("http", r.url, r.resets, FALSE)
  /\ loopPc = "pollWait"
  /\ consecutiveErrors = 0
  /\ \E first \in Signatures, m \in Slots :
       LET cache == <<first>> \o OldSignatures(CacheLimit - 1)
       IN /\ poll = Poll(m, m, cache, NewPoll.recentAccounts)
          /\ obs = [NoObs EXCEPT !.runs = 1, !.fetches = cache]

EvictionNext ==
  \/ \E s \in Slots : s >= poll.lastCheckedSlot /\ SlotOk(s)
  \/ PollWaitDone(POLL_INTERVAL_MS)
  \/ \E list \in SigLists : SigsOk(list)
  \/ TxOk(TxDetail("null", "none"))
  \/ TxOk(TxDetail("other", "none"))
  \/ TxFail
  \/ TxDelayDone

EvictionSpec == InitEvictionSpec /\ [][EvictionNext]_vars

\* The supervisory loop after n consecutive errors (the counter is only
\* reset at line 70, after a return of monitorProgramViaHttp): run n + 1 has
\* just failed its first getSlot for good (661-664) and waits the 5 s of line
\* 826.  Each run took one connection from the pool (68); the last backoff
\* applied was the one for n errors.
InitSupervisorSpec ==
  /\ InitMonitor
  /\ config = DefaultConfig(FALSE)
  /\ watch = 1
  /\ sequential = FALSE
  /\ InitGuard
  /\ wsIndex = 0
  /\ hasAlchemyRpc = FALSE
  /\ hasAlchemyWs = FALSE
  /\ nCalls = 0
  /\ marks = {}
  /\ nMarks = 0
  /\ loopPc = "errorWait"
  /\ poll = NewPoll
  /\ \E n \in 0..MaxErrors :
       /\ consecutiveErrors = n
       /\ LET r == HttpSelect({}, n, 0)
          IN /\ failedEndpoints = r.failed
             /\ httpIndex = r.index
             /\ lastCall = Call("http", r.url, r.resets, FALSE)
       /\ obs = [NoObs EXCEPT !.rpc = "getSlot", !.ok = FALSE, !.runs = n + 1,
                              !.retryDelay = IF n = 0 THEN 0 ELSE Backoff(n)]

\* The failure reaches the supervisory loop, which backs off and starts the
\* next run; that run polls without a further failure of getSlot.
SupervisorNext ==
  \/ ErrorWaitDone
  \/ BackoffDone
  \/ \E s \in Slots : SlotOk(s)
  \/ \E d \in PollDelays : PollWaitDone(d)
  \/ \E list \in SigLists : SigsOk(list)
  \/ TxOk(TxDetail("other", "none"))
  \/ TxFail
  \/ TxDelayDone

SupervisorSpec == InitSupervisorSpec /\ [][SupervisorNext]_vars

\* The Position Monitor of real mode over a store of two positions: both
\* creation events were accepted and bought in the first scan of the run,
\* which now waits for its next cycle.  Ticks overlap or not, either position
\* is the watched one, and the prices are the two that hit a target.
SweepPrices == {15, 20}

InitSweepSpec ==
  /\ config \in {DefaultConfig(FALSE), FullExitConfig(FALSE)}
  /\ activeTokens = <<TokenPosition("mintA", BuyPrice, 200),
                      TokenPosition("mintB", BuyPrice, 200)>>
  /\ ticks = EmptyBag
  /\ nTicks = 0
  /\ disc = IdleDisc
  /\ nEvents = 2
  /\ simTimer = <<FALSE, FALSE>>
  /\ watch \in 1..2
  /\ hist = <<>>
  /\ sellCount = <<0, 0>>
  /\ sequential \in BOOLEAN
  /\ InitGuard
  /\ wsIndex = 0
  /\ hasAlchemyRpc = FALSE
  /\ hasAlchemyWs = FALSE
  /\ nCalls = 0
  /\ marks = {}
  /\ nMarks = 0
  /\ LET r == HttpSelect({}, 0, 0)
     IN /\ failedEndpoints = r.failed
        /\ httpIndex = r.index
        /\ lastCall = Call("http", r.url, r.resets, FALSE)
  /\ loopPc = "pollWait"
  /\ consecutiveErrors = 0
  /\ poll = Poll(20, 20, <<"sigA", "sigB">>, NewPoll.recentAccounts)
  /\ obs = [NoObs EXCEPT !.rpc = "getTransaction", !.runs = 1, !.cycles = 1,
                         !.requested = TRUE, !.marker = 10, !.buys = 2,
                         !.fetches = <<"sigA", "sigB">>,
                         !.handled = <<"sigA", "sigB">>]

SweepNext ==
  \/ TickStart
  \/ \E tk \in BagToSet(ticks), p \in SweepPrices : PriceOk(tk, p)
  \/ \E tk \in BagToSet(ticks) : PriceFail(tk)
  \/ \E tk \in BagToSet(ticks) : SellOk(tk)
  \/ \E tk \in BagToSet(ticks) : SellFail(tk)

SweepSpec == InitSweepSpec /\ [][SweepNext]_vars

\* The Position Monitor over the same store while the price stays at eight
\* times the buy price, the multiplier of the highest configured target
\* (config/index.js:34): every refresh returns it, a sell succeeds or fails.
\* The timer keeps firing and every awaited price or sell settles.
SteadyPrices == {80}

SteadyNext ==
  \/ TickStart
  \/ \E tk \in BagToSet(ticks), p \in SteadyPrices : PriceOk(tk, p)
  \/ \E tk \in BagToSet(ticks) : SellOk(tk)
  \/ \E tk \in BagToSet(ticks) : SellFail(tk)

SteadyTickStep ==
  \E tk \in BagToSet(ticks) :
    (\E p \in SteadyPrices : PriceOk(tk, p)) \/ SellOk(tk) \/ SellFail(tk)

SteadySpec ==
  /\ InitSweepSpec
  /\ [][SteadyNext]_vars
  /\ WF_vars(TickStart)
  /\ WF_vars(SteadyTickStep)

Spec == Init /\ [][MonitorNext]_vars

SeqSpec == InitSeq /\ [][MonitorNext]_vars

TypeOK ==
  /\ config \in Configs
  /\ Len(activeTokens) <= nEvents
  /\ Len(simTimer) = Len(activeTokens)
  /\ Len(hist) <= MaxTicks
  /\ failedEndpoints \subseteq PoolEndpoints
  /\ nCalls <= MaxCalls

(***************************************************************************)
(* The profit tier table that monitorTokenPrices implements: the two       *)
(* targets tested at lines 561 and 593.                                    *)
(***************************************************************************)
TierTable ==
  <<[priceMultiplier |-> config.profitTarget1,
     cumulativeSellPercent |-> config.sellPercentage1],
    [priceMultiplier |-> config.profitTarget2,
     cumulativeSellPercent |-> config.sellPercentage2]>>

\* The table that loadConfig reads (config/index.js:29-41): five targets, the
\* first two percentages cumulative as the monitor uses them, the last three
\* added on top (15, 50, 65, 80, 85 with the defaults).
ConfiguredTierTable ==
  <<[priceMultiplier |-> config.profitTarget1,
     cumulativeSellPercent |-> config.sellPercentage1],
    [priceMultiplier |-> config.profitTarget2,
     cumulativeSellPercent |-> config.sellPercentage2],
    [priceMultiplier |-> config.profitTarget3,
     cumulativeSellPercent |-> config.sellPercentage2 + config.sellPercentage3],
    [priceMultiplier |-> config.profitTarget4,
     cumulativeSellPercent |-> config.sellPercentage2 + config.sellPercentage3
                                 + config.sellPercentage4],
    [priceMultiplier |-> config.profitTarget5,
     cumulativeSellPercent |-> config.sellPercentage2 + config.sellPercentage3
                                 + config.sellPercentage4 + config.sellPercentage5]>>

MaxCumulative == TierTable[Len(TierTable)].cumulativeSellPercent

\* The lowest tier of `table` whose multiplier is reached by price / buyPrice
\* and whose cumulative percent is above `sold`; 0 when there is none.
LowestTier(table, price, buyPrice, sold) ==
  LET met == {k \in 1..Len(table) :
                /\ table[k].priceMultiplier * buyPrice <= price * 10
                /\ table[k].cumulativeSellPercent > sold}
  IN IF met = {} THEN 0 ELSE CHOOSE k \in met : \A j \in met : k <= j

Selling(tk) == tk.pc \in {"sell1", "sell2"}

HasDefaultTiers ==
  /\ config.profitTarget1 = 13 /\ config.sellPercentage1 = 15
  /\ config.profitTarget2 = 20 /\ config.sellPercentage2 = 50

(***************************************************************************)
(* C1.  For every position and under every interleaving of monitor ticks,  *)
(* soldPercentage never decreases from one state to the next and never     *)
(* exceeds the largest cumulative sell percent of the tier table.          *)
(* Refuted: a first-target sell that was issued when soldPercentage was 0  *)
(* can complete after a later tick has completed the second target, and    *)
(* then writes sellPercentage1 over sellPercentage2.                       *)
(***************************************************************************)
C1_SoldNeverDecreases ==
  [][\A i \in 1..Len(activeTokens) :
        /\ activeTokens'[i].soldPercentage >= activeTokens[i].soldPercentage
        /\ activeTokens'[i].soldPercentage <= MaxCumulative]_vars

(***************************************************************************)
(* C2.  For every position and every tier, at most one successful sell is  *)
(* performed for that tier's percentage band over the whole run, under     *)
(* every interleaving of ticks and sell completions.                       *)
(* Refuted: two overlapping ticks both see soldPercentage = 0 and both     *)
(* sell the first band.                                                    *)
(***************************************************************************)
C2_OneSellPerTier == \A k \in 1..Len(TierTable) : sellCount[k] <= 1

(***************************************************************************)
(* C3.  Within a single monitor tick at most one tier sell is attempted    *)
(* per position, and the tier chosen is the lowest tier of the table whose *)
(* priceMultiplier is <= the price ratio and whose cumulativeSellPercent   *)
(* is > soldPercentage (as read when the targets are evaluated).  The table *)
(* is the two targets of the monitor and, with the default configuration,  *)
(* also the five targets that loadConfig reads.                            *)
(***************************************************************************)
C3_OneLowestTierPerTick ==
  /\ \A tk \in BagToSet(ticks) :
        /\ tk.sells <= 1
        /\ Selling(tk) =>
             /\ TierOf(tk.pc) = LowestTier(TierTable, tk.price,
                                           activeTokens[tk.i].buyPrice, tk.trigSold)
             /\ HasDefaultTiers =>
                  TierOf(tk.pc) = LowestTier(ConfiguredTierTable, tk.price,
                                             activeTokens[tk.i].buyPrice,
                                             tk.trigSold)
  /\ Len(hist) <= nTicks
  /\ \A k \in 1..Len(hist) :
        hist[k].tier >= 1 =>
          hist[k].tier = LowestTier(TierTable, hist[k].price,
                                    activeTokens[watch].buyPrice,
                                    hist[k].soldBefore)

\* A sell of the first tier is in flight although the price has also reached
\* the second tier's multiplier.
C3_Witness ==
  \E tk \in BagToSet(ticks) :
     /\ tk.pc = "sell1"
     /\ tk.price * 10 >= config.profitTarget2 * activeTokens[tk.i].buyPrice

(***************************************************************************)
(* C4.  With the default tier table [(1.3,15),(2.0,50),(3.0,65),(4.0,80),  *)
(* (8.0,85)], a position whose ratio jumps to 5.0x and stays there, every  *)
(* sell succeeding: the first tick fires tier 1 (15) and the following     *)
(* ticks fire tiers 2, 3, 4, 5 in order, one per tick, up to 85.           *)
(* Refuted: the monitor has two targets only; the third tick sells         *)
(* nothing and soldPercentage stays at 50.                                 *)
(***************************************************************************)
C4_JumpFiresEveryTier ==
  (/\ HasDefaultTiers
   /\ \A k \in 1..Len(hist) : hist[k].price = 50 /\ hist[k].ok)
  => \A k \in 1..Len(hist) :
        k <= Len(ConfiguredTierTable) =>
          hist[k].soldAfter = ConfiguredTierTable[k].cumulativeSellPercent

(***************************************************************************)
(* C5.  Entry price 0.0001, tier table [(1.3,15),(2.0,50)], observed       *)
(* prices 0.00011 on tick 1 and 0.0002 on tick 2, every sell succeeding.   *)
(* As claimed: soldPercentage is 15 after tick 1 and 50 after tick 2.      *)
(* As amended: soldPercentage is 0 after tick 1 (1.1x is below the first   *)
(* target) and 15 after tick 2 (one tier per tick, the lowest first).      *)
(***************************************************************************)
C5Tick1 ==
  /\ HasDefaultTiers
  /\ Len(hist) >= 1
  /\ activeTokens[watch].buyPrice = 10
  /\ hist[1].price = 11 /\ hist[1].ok

C5Tick2 ==
  /\ C5Tick1
  /\ Len(hist) >= 2
  /\ hist[2].price = 20 /\ hist[2].ok

C5_TwoTickScenario ==
  /\ C5Tick1 => hist[1].soldAfter = 0
  /\ C5Tick2 => hist[2].soldAfter = 15

C5_Witness == C5Tick2 /\ hist[2].tier = 1 /\ hist[2].soldAfter = 15

C5_AsClaimed ==
  /\ C5Tick1 => hist[1].soldAfter = 15
  /\ C5Tick2 => hist[2].soldAfter = 50

(***************************************************************************)
(* C6.  A position's soldPercentage and status change only in a step in    *)
(* which a tier sell for that position completes successfully (in          *)
(* simulation mode: the tick that simulates the sell); a failed sell, a    *)
(* failed price refresh, a tick in which no target is hit and every        *)
(* discovery step leave them unchanged.                                    *)
(***************************************************************************)
SoldChanged(i) ==
  \/ activeTokens'[i].soldPercentage # activeTokens[i].soldPercentage
  \/ activeTokens'[i].status # activeTokens[i].status

BandQuantity(tokenAmount, tier, sold) ==
  (tokenAmount * (TierTable[tier].cumulativeSellPercent - sold)) \div 100

QuantitiesOk(tokens, tks, h) ==
  /\ \A tk \in BagToSet(tks) :
        Selling(tk) =>
          tk.sellAmount = BandQuantity(tokens[tk.i].tokenAmount, TierOf(tk.pc),
                                       tk.trigSold)
  /\ \A k \in 1..Len(h) :
        h[k].tier >= 1 =>
          h[k].amount = BandQuantity(tokens[watch].tokenAmount, h[k].tier,
                                     h[k].soldBefore)

C7_SellQuantity ==
  [][/\ QuantitiesOk(activeTokens', ticks', hist')
     /\ \A i \in 1..Len(activeTokens) :
           activeTokens'[i].tokenAmount = activeTokens[i].tokenAmount]_vars

\* A second-tier sell is in flight for a position of which the first band
\* is already sold.
C7_Witness ==
  \E tk \in BagToSet(ticks) :
     /\ tk.pc = "sell2"
     /\ tk.trigSold = config.sellPercentage1
     /\ tk.sellAmount > 0

(***************************************************************************)
(* C8.  For any sequence of markFailed and nextEndpoint calls,             *)
(* nextEndpoint(kind) terminates (it clears the failed set at most once)   *)
(* and returns a url of that kind's list that is not in the failed set at  *)
(* the moment it is returned.                                              *)
(***************************************************************************)
ListOf(op) == IF op = "http" THEN HTTP_RPC_ENDPOINTS ELSE WS_RPC_ENDPOINTS

C8_NextEndpointUsable ==
  lastCall.op \in {"http", "ws"} =>
    /\ lastCall.url \in Range(ListOf(lastCall.op))
    /\ lastCall.url \notin failedEndpoints
    /\ lastCall.resets <= 1

\* An endpoint was handed out while another endpoint of the same list is in
\* the failed set.
C8_Witness ==
  /\ lastCall.op \in {"http", "ws"}
  /\ failedEndpoints \cap Range(ListOf(lastCall.op)) # {}

(***************************************************************************)
(* C9.  After markFailed has been called once for every endpoint of a kind *)
(* (in any order), the next nextEndpoint call for that kind succeeds.      *)
(* As claimed: when it returns, the failed set holds no endpoint of that   *)
(* kind.                                                                   *)
(* As amended: it returns an endpoint of that kind that is not in the      *)
(* failed set; the call empties the failed set only if every endpoint of   *)
(* the kind was in it, and otherwise leaves it as it was (markFailed has   *)
(* pruned it on the way, and it still holds the endpoints failed last).    *)
(***************************************************************************)
AfterAllMarked(op) ==
  /\ lastCall'.op = op
  /\ lastCall'.allMarked
  /\ lastCall'.url \in Range(ListOf(op))
  /\ lastCall'.url \notin failedEndpoints'

C9_AfterAllMarked ==
  [][\A op \in {"http", "ws"} :
        (lastCall'.op = op /\ lastCall'.allMarked) =>
          /\ AfterAllMarked(op)
          /\ failedEndpoints # {}
          /\ IF Range(ListOf(op)) \subseteq failedEndpoints
             THEN failedEndpoints' = {}
             ELSE failedEndpoints' = failedEndpoints]_vars

\* Such a call has returned and endpoints of its kind are still failed.
C9_Witness ==
  /\ lastCall.allMarked
  /\ lastCall.url \notin failedEndpoints
  /\ failedEndpoints \cap Range(ListOf(lastCall.op)) # {}

C9_AsClaimed ==
  lastCall.allMarked =>
    /\ lastCall.url \in Range(ListOf(lastCall.op))
    /\ failedEndpoints \cap Range(ListOf(lastCall.op)) = {}

(***************************************************************************)
(* C10.  markFailed(url) adds url to the failed set, and after any         *)
(* markFailed call the just-failed url is in the failed set.               *)
(* As claimed: the set is pruned to only the most recently failed url      *)
(* exactly when keeping all entries would leave fewer than one usable      *)
(* endpoint of that kind; otherwise every previously failed url stays.     *)
(* As amended: the set is pruned to only the most recently failed url      *)
(* exactly when the number of failed urls, url included and whatever their *)
(* kind, has reached the number of HTTP endpoints minus one; otherwise     *)
(* every previously failed url stays.                                      *)
(***************************************************************************)
KindOf(url) ==
  IF url \in Range(HTTP_RPC_ENDPOINTS) THEN HTTP_RPC_ENDPOINTS ELSE WS_RPC_ENDPOINTS

MarkedUrl(url) == lastCall'.op = "mark" /\ lastCall'.url = url /\ nCalls' = nCalls + 1

C10_MarkFailedPrunes ==
  [][\A url \in PoolEndpoints :
        MarkedUrl(url) =>
          /\ url \in failedEndpoints'
          /\ IF Cardinality(failedEndpoints \cup {url}) >= Len(HTTP_RPC_ENDPOINTS) - 1
             THEN failedEndpoints' = {url}
             ELSE failedEndpoints' = failedEndpoints \cup {url}]_vars

\* A markFailed call has pruned the set although an endpoint of the url's kind
\* was still usable with all entries kept.
C10_Witness ==
  /\ lastCall.op = "mark"
  /\ lastCall.url \in PoolEndpoints
  /\ nMarks >= 2
  /\ failedEndpoints = {lastCall.url}
  /\ Range(KindOf(lastCall.url)) \ marks # {}

C10_AsClaimed ==
  [][\A url \in PoolEndpoints :
        MarkedUrl(url) =>
          /\ url \in failedEndpoints'
          /\ IF Range(KindOf(url)) \subseteq failedEndpoints \cup {url}
             THEN failedEndpoints' = {url}
             ELSE failedEndpoints' = failedEndpoints \cup {url}]_vars

(***************************************************************************)
(* C11.  A guarded call whose operation fails with a retryable error       *)
(* maxRetries + 1 consecutive times performs exactly maxRetries            *)
(* re-attempts, each preceded by a delay, the k-th delay being             *)
(* initialDelay * backoffFactor^(k-1) (strictly increasing for             *)
(* backoffFactor > 1), and only then surfaces the failure.                 *)
(***************************************************************************)
\* Every invocation but the first follows a delay, and the delays follow the
\* geometric schedule.
DelaysOnSchedule ==
  /\ call.pc \in {"calling", "returned", "thrown"} =>
       call.invocations = Len(call.delays) + 1
  /\ call.pc = "waiting" => call.invocations = Len(call.delays)
  /\ \A k \in 1..Len(call.delays) :
        /\ call.delays[k] = call.initialDelay * Pow(call.factor, k - 1)
        /\ (k > 1 /\ call.factor > 1) => call.delays[k] > call.delays[k - 1]

\* The failure surfaced although the last error was retryable.
Exhausted == call.pc = "thrown" /\ call.retryable

C11_RetriesThenFails ==
  /\ call.pc # "idle" => DelaysOnSchedule
  /\ Exhausted =>
       /\ call.invocations = call.maxRetries + 1
       /\ Len(call.delays) = call.maxRetries

C11_Witness ==
  /\ Exhausted
  /\ call.maxRetries = MaxRetries
  /\ call.factor = 2
  /\ Len(call.delays) >= 2

(***************************************************************************)
(* C12.  The retry classifier treats rate limiting (429), the gateway      *)
(* errors 502, 503 and 410, timeouts and 'endpoint disabled for this call' *)
(* responses as retryable, and every other error class as non-retryable.   *)
(* Refuted: an error whose message is '502 Bad Gateway' matches none of    *)
(* the phrases of isRateLimitError.                                        *)
(***************************************************************************)
RetryableClasses ==
  {"rate_limit", "gateway_502", "gateway_503", "gateway_410", "timeout",
   "endpoint_disabled"}

C12_ClassifierMatchesClasses ==
  call.err # NoError =>
    (call.retryable <=> call.err.class \in RetryableClasses)

(***************************************************************************)
(* C13.  When the guarded operation fails with a non-retryable error, the  *)
(* guard propagates that error to the caller without waiting, without      *)
(* re-invoking the operation and without marking any endpoint failed,      *)
(* however many retries remain.                                            *)
(***************************************************************************)
C13_NonRetryablePropagates ==
  [][\A err \in Errors :
        (call.pc = "calling" /\ call'.err = err /\ call' # call
           /\ ~isRateLimitError(err)) =>
          /\ call'.pc = "thrown"
          /\ call'.delays = call.delays
          /\ call'.invocations = call.invocations
          /\ call'.retries = call.retries
          /\ failedEndpoints' = failedEndpoints]_vars

\* A permanent error surfaced at the first invocation of a call that had
\* retries left and a connection to mark.
C13_Witness ==
  /\ call.pc = "thrown"
  /\ ~call.retryable
  /\ call.err.class = "not_found"
  /\ call.retries = MaxRetries
  /\ call.invocations = 1
  /\ call.connection \in Range(HTTP_RPC_ENDPOINTS)

\* How often x occurs in seq.
Occurrences(seq, x) == Cardinality({k \in 1..Len(seq) : seq[k] = x})

\* The entries of the current cycle's signature list that are newer than the
\* tip marker the cycle started with.
Presented ==
  {k \in 1..Len(poll.programTransactions) :
     poll.programTransactions[k].slot > obs.marker}

ScanDone == loopPc = "pollWait" /\ obs.requested

(***************************************************************************)
(* C14.  A transaction identifier above the tip marker that is presented   *)
(* twice in one signature list, or again while it is still in the          *)
(* deduplication cache, has its detail fetched exactly once: as long as    *)
(* the cache has evicted nothing, an identifier has one fetch if it is in  *)
(* the cache and none otherwise, and when the scan of a cycle is complete  *)
(* every presented identifier is in the cache.                             *)
(***************************************************************************)
C14_FetchedOnce ==
  /\ Len(obs.fetches) <= CacheLimit =>
       \A sig \in Signatures :
         Occurrences(obs.fetches, sig)
           = IF sig \in Range(poll.processedSignatures) THEN 1 ELSE 0
  /\ ScanDone =>
       \A k \in Presented :
         poll.programTransactions[k].signature \in Range(poll.processedSignatures)

C14_Witness ==
  /\ ScanDone
  /\ \E j \in Presented : \E k \in Presented :
       /\ j < k
       /\ poll.programTransactions[j].signature = poll.programTransactions[k].signature
       /\ Occurrences(obs.fetches, poll.programTransactions[k].signature) = 1

(***************************************************************************)
(* C15.  When the supervisory loop starts monitorProgramViaHttp again      *)
(* after an error, the deduplication cache and the failed endpoint set     *)
(* hold what they held before the error.  Refuted: the cache is a local    *)
(* of monitorProgramViaHttp and the new run starts with an empty one.      *)
(***************************************************************************)
C15_RestartKeepsCaches ==
  [][(loopPc = "backoff" /\ loopPc' = "slot") =>
       /\ poll'.processedSignatures = poll.processedSignatures
       /\ failedEndpoints' = failedEndpoints]_vars

(***************************************************************************)
(* C16.  When getSlot fails for good, no signature list is requested in    *)
(* that cycle, the error reaches the supervisory loop, which counts it,    *)
(* waits for the backoff delay and starts monitorProgramViaHttp again with *)
(* no tip marker, so that the next successful getSlot only records a new   *)
(* baseline.                                                               *)
(***************************************************************************)
C16_TipFailureRestarts ==
  [][/\ (loopPc = "slot" /\ loopPc' # "slot" /\ ~obs'.ok) =>
          /\ loopPc' = "errorWait"
          /\ ~obs'.requested
          /\ poll' = poll
     /\ (loopPc = "errorWait" /\ loopPc' # "errorWait") =>
          /\ loopPc' = "backoff"
          /\ consecutiveErrors' = consecutiveErrors + 1
          /\ obs'.retryDelay = Backoff(consecutiveErrors')
          /\ ~obs'.requested
     /\ (loopPc = "backoff" /\ loopPc' # "backoff") =>
          /\ loopPc' = "slot"
          /\ poll' = NewPoll
          /\ ~obs'.requested
     /\ (loopPc = "slot" /\ poll.lastCheckedSlot = 0 /\ loopPc' # "slot" /\ obs'.ok) =>
          /\ loopPc' = "pollWait"
          /\ poll'.lastCheckedSlot = poll'.latestSlot
          /\ ~obs'.requested]_vars

C16_Witness ==
  /\ consecutiveErrors >= 1
  /\ loopPc = "pollWait"
  /\ ~obs.requested
  /\ poll.lastCheckedSlot = poll.latestSlot
  /\ poll.lastCheckedSlot # 0

(***************************************************************************)
(* C17.  When getProgramAccounts fails for good in the fallback, the cycle *)
(* ends without advancing the tip marker and the error reaches the         *)
(* supervisory loop.  Refuted: the catch of lines 750-753 swallows the     *)
(* error, the cycle goes on with an empty list, sets the tip marker to the *)
(* latest slot and waits for the next poll.                                *)
(***************************************************************************)
C17_EnumerationFailureIsFatal ==
  [][(loopPc = "accounts" /\ loopPc' # "accounts" /\ ~obs'.ok) =>
       /\ loopPc' = "errorWait"
       /\ poll'.lastCheckedSlot = poll.lastCheckedSlot]_vars

Scanning == loopPc \in {"tx", "handle", "txDelay"}

(***************************************************************************)
(* C18.  A failure that concerns one transaction (getTransaction failing   *)
(* for good, an extraction that finds no mint, a filter rejection, a buy   *)
(* failure) never takes the cycle to the supervisory loop: the scan goes   *)
(* on, and when it ends every presented signature has been taken up and    *)
(* the tip marker is the latest slot.                                      *)
(***************************************************************************)
C18_TransactionFailureLocal ==
  [][Scanning =>
       /\ loopPc' \in {"tx", "handle", "txDelay", "pollWait"}
       /\ consecutiveErrors' = consecutiveErrors
       /\ poll'.programTransactions = poll.programTransactions
       /\ loopPc' # "pollWait" => poll'.sigPos >= poll.sigPos
       /\ loopPc' = "pollWait" =>
            /\ poll'.lastCheckedSlot = poll'.latestSlot
            /\ \A k \in 1..Len(poll'.programTransactions) :
                 \/ poll'.programTransactions[k].slot <= obs'.marker
                 \/ poll'.programTransactions[k].signature
                      \in Range(poll'.processedSignatures)]_vars

C18_Witness ==
  /\ ScanDone
  /\ obs.failures >= 1
  /\ poll.lastCheckedSlot = poll.latestSlot
  /\ Len(obs.fetches) >= 2
  /\ Cardinality(Presented) >= 2

(***************************************************************************)
(* C20.  activeTokens grows only by the step in which buyToken resolves    *)
(* for the creation event that handleNewToken is handling, by exactly one  *)
(* position for that event's mint; a filter rejection and a buy failure    *)
(* end the handling with activeTokens unchanged, and no signature is       *)
(* handed to handleNewToken twice in one run.                              *)
(***************************************************************************)
C20_PositionPerAcceptedEvent ==
  [][/\ activeTokens' # activeTokens =>
          /\ loopPc = "handle" /\ disc.pc = "buy" /\ disc'.pc = "idle"
          /\ obs'.buys = obs.buys + 1
          /\ Len(activeTokens') = Len(activeTokens) + 1
          /\ SubSeq(activeTokens', 1, Len(activeTokens)) = activeTokens
          /\ activeTokens'[Len(activeTokens')].mintAddress = disc.mint
     /\ (disc.pc = "filter" /\ disc'.pc = "idle") => activeTokens' = activeTokens
     /\ (disc.pc = "filter" /\ disc'.pc = "buy") => activeTokens' = activeTokens
     /\ (disc.pc = "buy" /\ disc'.pc = "idle" /\ obs'.buys = obs.buys) =>
          activeTokens' = activeTokens
     /\ \A sig \in Signatures : Occurrences(obs'.handled, sig) <= 1
     /\ Len(activeTokens') <= nEvents']_vars

C20_Witness ==
  /\ loopPc = "handle"
  /\ disc.pc = "idle"
  /\ Len(activeTokens) = 1
  /\ Len(obs.handled) = 1

NewCycles == obs.cycles + obs.runs

(***************************************************************************)
(* C19.  Whatever fails (an RPC for good, the filter, a buy, a sell, a     *)
(* price refresh), the process goes on: as long as the model's budget of   *)
(* cycles is not used up the Discovery Loop eventually starts another      *)
(* cycle, in the same run or in a new one started by the supervisory loop, *)
(* and as long as its budget of ticks is not used up the timer eventually  *)
(* fires another tick.                                                     *)
(***************************************************************************)
C19_KeepsRunning ==
  /\ <>[](obs.cycles = MaxCycles) \/ []<><<NewCycles' > NewCycles>>_vars
  /\ <>[](nTicks = MaxTicks) \/ []<><<nTicks' > nTicks>>_vars

C19_Witness ==
  /\ consecutiveErrors >= 1
  /\ obs.cycles = MaxCycles
  /\ nTicks = MaxTicks
  /\ loopPc = "sigs"

\* A position that is not in its terminal state.
Open(token) == token.status # <<"Fully Sold">> /\ token.soldPercentage < 100

(***************************************************************************)
(* C21.  No two positions of activeTokens that are not fully sold have the *)
(* same mintAddress.  Refuted: handleNewToken never looks at activeTokens  *)
(* before it buys and pushes, so two transactions that name the same mint  *)
(* give two open positions for it.                                         *)
(***************************************************************************)
C21_UniqueOpenMints ==
  \A i \in 1..Len(activeTokens) : \A j \in 1..Len(activeTokens) :
    (i < j /\ Open(activeTokens[i]) /\ Open(activeTokens[j])) =>
      activeTokens[i].mintAddress # activeTokens[j].mintAddress

(***************************************************************************)
(* C22.  With simulationMode set, no invocation of monitorTokenPrices is   *)
(* ever suspended in getTokenPrice or sellToken, buyToken is never         *)
(* awaited, and the discovery task never takes a connection from the pool  *)
(* or awaits an RPC; every position comes from startSimulationMode's test  *)
(* tokens.                                                                 *)
(***************************************************************************)
C22_SimulationMakesNoRealCall ==
  config.simulationMode =>
    /\ ticks = EmptyBag
    /\ disc.pc # "buy"
    /\ loopPc = "start"
    /\ obs = NoObs
    /\ lastCall = NoCall
    /\ call = NoGuarded
    /\ \A i \in 1..Len(activeTokens) :
         activeTokens[i].mintAddress \in Range(TestTokens)

C22_Witness ==
  /\ config.simulationMode
  /\ nTicks >= 1
  /\ Len(activeTokens) >= 1
  /\ activeTokens[1].soldPercentage > 0

\* soldPercentage and status of a position, the values the claim compares.
SoldState(token) == <<token.soldPercentage, token.status>>

(***************************************************************************)
(* C23.  For the same price ratios the Position Monitor gives a position   *)
(* the same soldPercentage and status values in real mode as in simulation *)
(* mode: whenever a real-mode step changes these values, the new values    *)
(* are the ones a simulation-mode tick gives the position from its current *)
(* values and the price that a suspended real-mode tick has observed.      *)
(* Refuted: a real-mode sell that resolves after a later tick has sold the *)
(* second target writes the first target's values over it, which no        *)
(* simulation-mode tick does at any price.                                 *)
(***************************************************************************)
C23_RealUpdatesAsSimulation ==
  [][~config.simulationMode =>
       \A i \in 1..Len(activeTokens) :
         SoldState(activeTokens'[i]) # SoldState(activeTokens[i]) =>
           \E tk \in BagToSet(ticks) :
             /\ tk.i = i
             /\ SoldState(activeTokens'[i]) =
                  SoldState(SimVisitToken([activeTokens[i] EXCEPT
                                             !.currentPrice = tk.price]))]_vars

(***************************************************************************)
(* C24.  When a guarded call of the program fails with an error that the   *)
(* classifier takes for transient and is retried, the endpoint of the      *)
(* connection that served it is in the failed set while the retry is       *)
(* pending.  Refuted: retryRpc marks an endpoint only when the caller      *)
(* passes the connection option, and no call site does.                    *)
(***************************************************************************)
C24_RetriedEndpointMarked ==
  (call.pc = "waiting" /\ call.retryable) => lastCall.url \in failedEndpoints

\* A step of the discovery side: the discovery task or handleNewToken in
\* real mode, startSimulationMode in simulation mode.
DiscoveryActs ==
  \/ discoveryVars' # discoveryVars
  \/ disc' # disc
  \/ nEvents' # nEvents

\* A step of an invocation of monitorTokenPrices.
MonitorActs == ticks' # ticks \/ nTicks' # nTicks

(***************************************************************************)
(* C25.  activeTokens only grows: every step keeps the positions that are  *)
(* there at their index with their mint, buy price and amount; a step of   *)
(* the discovery side leaves every existing position as it is and adds at  *)
(* most one at the end; soldPercentage and status of a position change     *)
(* only in a step of monitorTokenPrices.                                   *)
(***************************************************************************)
C25_StoreOnlyGrows ==
  [][/\ Len(activeTokens') >= Len(activeTokens)
     /\ \A i \in 1..Len(activeTokens) :
          /\ activeTokens'[i].mintAddress = activeTokens[i].mintAddress
          /\ activeTokens'[i].buyPrice = activeTokens[i].buyPrice
          /\ activeTokens'[i].tokenAmount = activeTokens[i].tokenAmount
          /\ SoldState(activeTokens'[i]) # SoldState(activeTokens[i]) =>
               MonitorActs /\ ~DiscoveryActs
     /\ DiscoveryActs =>
          /\ Len(activeTokens') <= Len(activeTokens) + 1
          /\ SubSeq(activeTokens', 1, Len(activeTokens)) = activeTokens
     /\ Len(activeTokens') > Len(activeTokens) =>
          /\ DiscoveryActs
          /\ SoldState(activeTokens'[Len(activeTokens')]) = <<0, <<"Active">> >>]_vars

C25_Witness ==
  /\ Len(activeTokens) = 2
  /\ activeTokens[1].soldPercentage > 0
  /\ activeTokens[2].soldPercentage = 0
  /\ disc.pc = "idle"

(***************************************************************************)
(* C26.  No two invocations of monitorTokenPrices are suspended in         *)
(* getTokenPrice or sellToken for the same position at the same time.      *)
(* Refuted: setInterval starts an invocation every 5 s without waiting for *)
(* the previous one, so two of them can await for one position.            *)
(***************************************************************************)
C26_OneTickPerPosition ==
  \A tk \in BagToSet(ticks) :
    /\ CopiesIn(tk, ticks) = 1
    /\ \A other \in BagToSet(ticks) : other # tk => other.i # tk.i

\* The discovery task awaits the getSlot of the first cycle of a run.
FirstCycle == loopPc = "slot" /\ poll.lastCheckedSlot = 0

(***************************************************************************)
(* C27.  Every run of monitorProgramViaHttp, the first and the ones after  *)
(* a restart, begins with no tip marker; in its first cycle the slot that  *)
(* getSlot returns becomes the tip marker and the cycle ends in the poll   *)
(* wait without any signature list requested and without any transaction  *)
(* fetched or handed to handleNewToken.                                    *)
(***************************************************************************)
C27_FirstCycleBaselineOnly ==
  [][/\ (loopPc \in {"start", "backoff"} /\ loopPc' = "slot") => FirstCycle'
     /\ FirstCycle =>
          /\ ~obs.requested /\ obs.fetches = <<>> /\ obs.handled = <<>>
          /\ loopPc' \in {"slot", "pollWait", "errorWait"}
          /\ ~obs'.requested /\ obs'.fetches = <<>> /\ obs'.handled = <<>>
          /\ disc' = disc
          /\ poll'.processedSignatures = <<>>
          /\ loopPc' = "pollWait" =>
               /\ poll'.lastCheckedSlot \in Slots
               /\ poll'.lastCheckedSlot = poll'.latestSlot]_vars

C27_Witness ==
  /\ obs.runs = 2
  /\ obs.cycles >= 1
  /\ loopPc = "pollWait"
  /\ obs.rpc = "getSlot" /\ obs.ok
  /\ poll.lastCheckedSlot = 20

\* C28: after every step of the Discovery Loop the recency cache holds at most
\* 100 identifiers; a step changes it only by inserting the identifier whose
\* detail fetch it starts, as the newest entry, and when the cache is full
\* the entry that leaves is the earliest inserted one (the sequence is in
\* insertion order), never the one just inserted.  The only other change is
\* a restart, which starts with an empty cache.
C28_CacheBoundedFifo ==
  [][LET cache == poll.processedSignatures
         after == poll'.processedSignatures
     IN /\ Len(after) <= CacheLimit
        /\ Len(obs'.fetches) = Len(obs.fetches) + 1
             => /\ after # cache
                /\ after[Len(after)] = obs'.fetches[Len(obs'.fetches)]
        /\ after # cache
             => \/ loopPc = "backoff" /\ after = <<>>
                \/ \E s \in Signatures \ Range(cache) :
                      after = IF Len(cache) < CacheLimit
                              THEN Append(cache, s)
                              ELSE Append(Tail(cache), s)]_vars

\* A full cache has taken a new identifier: the oldest one has left and the
\* new one is the newest entry, its detail fetch pending.
C28_Witness ==
  /\ loopPc = "tx"
  /\ Len(poll.processedSignatures) = CacheLimit
  /\ poll.processedSignatures[1] # OldSignature(1)
  /\ poll.processedSignatures[CacheLimit] \in Signatures
  /\ OldSignature(1) \notin Range(poll.processedSignatures)

\* C29: a transaction's detail is fetched in a cycle only if its slot is
\* strictly greater than the tip marker, which is the value recorded when the
\* previous cycle of the run ended (the baseline for the first scan) and
\* does not change while a cycle is under way; a step adds to the cache only
\* the identifier whose fetch it starts, so identifiers at or below the
\* marker are skipped and stay out of the cache.
C29_FetchedOnlyAboveMarker ==
  [][LET cache == poll.processedSignatures
         after == poll'.processedSignatures
         next == poll'.programTransactions[poll'.sigPos]
     IN /\ Len(obs'.fetches) = Len(obs.fetches) + 1
             => /\ next.signature = obs'.fetches[Len(obs'.fetches)]
                /\ next.slot > poll'.lastCheckedSlot
                /\ obs'.marker = poll'.lastCheckedSlot
        /\ poll'.lastCheckedSlot # poll.lastCheckedSlot
             => loopPc' = "pollWait" \/ loopPc \in {"start", "backoff"}
        /\ \A s \in Range(after) \ Range(cache) :
             /\ Len(obs'.fetches) = Len(obs.fetches) + 1
             /\ s = next.signature
        /\ \A k \in 1..Len(poll'.programTransactions) :
             (loopPc' \in {"tx", "pollWait"}
              /\ poll'.programTransactions[k].slot <= obs'.marker
              /\ poll'.programTransactions[k].signature \notin Range(cache))
             => poll'.programTransactions[k].signature \notin Range(after)]_vars

\* A list of two transactions was scanned with the marker at slot 20: the one
\* of slot 20 was skipped and is not in the cache, the detail of the one of
\* slot 30 is being fetched.
C29_Witness ==
  /\ loopPc = "tx"
  /\ obs.marker = 20
  /\ Len(poll.programTransactions) = 2
  /\ poll.programTransactions[1].slot = 20
  /\ poll.sigPos = 2
  /\ poll.programTransactions[1].signature \notin Range(poll.processedSignatures)
  /\ poll.programTransactions[2].signature \in Range(poll.processedSignatures)

\* A step that requests the signatures of an account (732).
QueryStarts ==
  /\ loopPc' = "acctSigs"
  /\ loopPc # "acctSigs" \/ poll'.acctPos # poll.acctPos

\* The enumeration is entered only from a failed signatures-for-address call
\* of the same cycle.
FallbackAfterFailure ==
  /\ loopPc' = "accounts"
       => loopPc = "sigs" /\ obs'.rpc = "getSignaturesForAddress" /\ ~obs'.ok
  /\ loopPc' \in {"acctSigs", "acctDelay"}
       => loopPc \in {"accounts", "acctSigs", "acctDelay"}

\* At most three accounts are chosen and each is queried once.
FallbackAtMostThree ==
  /\ Len(poll'.accountsToCheck) <= AccountsPerPoll
  /\ QueryStarts
       => /\ poll'.acctPos \in 1..Len(poll'.accountsToCheck)
          /\ poll'.acctPos > (IF loopPc = "accounts" THEN 0 ELSE poll.acctPos)

\* The watched account is queried only if at least 60 s have passed since
\* its last query.
FallbackRespectsWindow ==
  (QueryStarts /\ poll'.accountsToCheck[poll'.acctPos] = WatchedAccount)
    => Later(obs.sinceQuery, IF loopPc = "acctDelay" THEN AccountDelayMs ELSE 0)
         >= RecentWindowMs

\* C30: the fallback enumeration is taken only in a cycle whose direct
\* signatures-for-address call failed; in such a cycle at most 3 accounts are
\* queried, and no account is queried that was queried less than 60 seconds
\* earlier.
C30_FallbackBounded ==
  [][FallbackAfterFailure /\ FallbackAtMostThree /\ FallbackRespectsWindow]_vars

\* C31: the delay the supervisory loop applies before a restart never exceeds
\* 60 seconds and is non-decreasing in the number of consecutive errors: it
\* is the backoff of the new count, at least the delay applied for the
\* previous count and at least the backoff of every smaller count.
C31_BackoffCappedMonotone ==
  [][/\ obs'.retryDelay <= MaxBackoffMs
     /\ obs'.retryDelay >= obs.retryDelay
     /\ loopPc' = "backoff" /\ loopPc = "errorWait"
          => /\ obs'.retryDelay = Backoff(consecutiveErrors')
             /\ \A k \in 1..consecutiveErrors' : Backoff(k) <= obs'.retryDelay]_vars

\* The eighth consecutive error: the exponential has passed the ceiling and
\* the delay applied is the ceiling.
C31_Witness ==
  /\ loopPc = "backoff"
  /\ consecutiveErrors = 8
  /\ obs.retryDelay = MaxBackoffMs
  /\ Backoff(consecutiveErrors - 1) < MaxBackoffMs

\* C32: once a run of the Discovery Loop has completed a cycle without error,
\* the supervisory loop's counter of consecutive errors is zero, so a failure
\* of a run that had polled successfully is backed off with the base delay.
C32_CounterResetAfterSuccess ==
  /\ loopPc = "pollWait" => consecutiveErrors = 0
  /\ (loopPc = "backoff" /\ poll.lastCheckedSlot # 0)
       => obs.retryDelay = BaseBackoffMs

\* The tick that left position i goes on with the first later position that
\* is not sold out, waiting for its price, or ends when there is none.
RestOfSweep(i) ==
  LET later == {j \in (i + 1)..Len(activeTokens) :
                  activeTokens[j].soldPercentage < 100}
  IN IF later = {} THEN EmptyBag
     ELSE SetToBag({Tick("price", CHOOSE j \in later : \A k \in later : j <= k,
                         0, 0, 0, 0)})

C34_FullySoldIsTerminal ==
  [][\A i \in 1..Len(activeTokens) :
       activeTokens[i].status = <<"Fully Sold">>
         => /\ activeTokens'[i].status = activeTokens[i].status
            /\ activeTokens'[i].soldPercentage = activeTokens[i].soldPercentage
            /\ \A tk \in BagToSet(ticks') : tk.i # i]_vars

\* The endpoint after url in list, cyclically.
After(list, url) ==
  LET k == CHOOSE j \in 1..Len(list) : list[j] = url
  IN list[(k % Len(list)) + 1]

\* The urls the next n calls of a kind return when nothing is marked failed
\* in between.
NextUrls(op, n) ==
  [k \in 1..n |->
     IF op = "http"
     THEN HttpSelect(failedEndpoints, httpIndex + k - 1, 0).url
     ELSE WsSelect(failedEndpoints, wsIndex + k - 1, 0).url]

\* C35: while the failed set does not change, consecutive nextEndpoint calls
\* of one kind cycle through the kind's non-failed endpoints in list order:
\* a call that follows a call of its kind, with the failed set as that call
\* left it, returns the endpoint after the one returned before, and the
\* next calls of a round return every non-failed endpoint exactly once.  A
\* call for one kind leaves the cursor of the other kind alone.
C35_RoundRobinPerKind ==
  [][/\ \A op \in {"http", "ws"} :
          (lastCall'.op = op /\ nCalls' = nCalls + 1)
            => LET avail == Available(ListOf(op), failedEndpoints')
               IN /\ (lastCall.op = op /\ failedEndpoints' = failedEndpoints)
                       => lastCall'.url = After(avail, lastCall.url)
                  /\ IF op = "http"
                     THEN httpIndex' = httpIndex + 1 /\ wsIndex' = wsIndex
                     ELSE wsIndex' = wsIndex + 1 /\ httpIndex' = httpIndex
     /\ \A op \in {"http", "ws"} :
          LET avail == Available(ListOf(op), failedEndpoints)
          IN avail # <<>>
               => /\ Range(NextUrls(op, Len(avail))) = Range(avail)
                  /\ \A k \in 1..(Len(avail) - 1) :
                       NextUrls(op, Len(avail))[k + 1]
                         = After(avail, NextUrls(op, Len(avail))[k])]_vars

\* Two of the four http endpoints are marked failed and three http calls
\* followed one another: the third has wrapped around to the first of the
\* two endpoints that are left.
C35_Witness ==
  /\ lastCall.op = "http"
  /\ httpIndex = 3
  /\ ~hasAlchemyRpc
  /\ Cardinality(failedEndpoints \cap Range(HTTP_RPC_ENDPOINTS)) = 2
  /\ lastCall.url = Available(HTTP_RPC_ENDPOINTS, failedEndpoints)[1]

\* Progress of a guarded call: two per invocation of the operation, one more
\* once the invocation has settled.
Measure(c) == 2 * c.invocations + (IF c.pc = "calling" THEN 0 ELSE 1)

\* C36: a guarded call makes at most maxRetries + 1 invocations and every
\* step of it moves it forward, so it ends; when an invocation succeeds its
\* result is returned at once, with no further invocation or delay of that
\* call; a call that succeeds on its first invocation has waited no delay
\* and has marked no endpoint (the failed set changes only when a failed
\* invocation is about to be retried).
C36_BoundedInvocations ==
  [][/\ call'.invocations <= call'.maxRetries + 1
     /\ (call' # call /\ nGuarded' = nGuarded)
          => /\ Measure(call') > Measure(call)
             /\ Measure(call') <= 2 * (call'.maxRetries + 1) + 1
     /\ (call.pc = "calling" /\ call'.pc = "returned")
          => /\ call'.invocations = call.invocations
             /\ call'.delays = call.delays
             /\ failedEndpoints' = failedEndpoints
     /\ (call.pc = "returned" /\ call' # call)
          => nGuarded' = nGuarded + 1 /\ call'.invocations = 1
     /\ (call'.pc = "returned" /\ call'.invocations = 1) => call'.delays = <<>>
     /\ failedEndpoints' # failedEndpoints
          => call.pc = "calling" /\ call'.pc = "waiting"]_vars

\* A call with an endpoint to report has returned the result of its last
\* permitted invocation, after every earlier one had failed.
C36_Witness ==
  /\ call.pc = "returned"
  /\ call.maxRetries = MaxRetries
  /\ call.invocations = call.maxRetries + 1
  /\ call.connection \in failedEndpoints

\* The timer has fired as often as the model lets it and every tick has
\* ended.
SweepsDone == nTicks = MaxTicks /\ ticks = EmptyBag

\* Sells of the watched position that failed (recorded when ticks do not
\* overlap).
FailedSells ==
  Cardinality({k \in 1..Len(hist) : hist[k].tier # 0 /\ ~hist[k].ok})

WatchedSold == activeTokens[watch].soldPercentage

\* A sell of the watched position is awaited.
WatchedSelling == \E tk \in BagToSet(ticks) : tk.i = watch /\ Selling(tk)

\* The last visit of the watched position was a failed sell of tier k.
FailedLast(k) ==
  /\ sequential
  /\ Len(hist) >= 1
  /\ hist[Len(hist)].tier = k
  /\ ~hist[Len(hist)].ok

SellingTier(k) ==
  \E tk \in BagToSet(ticks) : tk.i = watch /\ Selling(tk) /\ TierOf(tk.pc) = k

\* The largest cumulative percent of the configured table.
ConfiguredMaximum ==
  ConfiguredTierTable[Len(ConfiguredTierTable)].cumulativeSellPercent

\* A position below the configured maximum is sold from again as long as
\* ticks are left.
SoldOnTowardsConfigured ==
  (HasDefaultTiers /\ WatchedSold < ConfiguredMaximum /\ nTicks < MaxTicks)
    ~> (WatchedSelling \/ WatchedSold = ConfiguredMaximum)

\* A tick that has refreshed the price of the position while it is below the
\* configured maximum sells from it.
VisitSellsTowardsConfigured ==
  [][\A tk \in BagToSet(ticks) :
       (/\ tk.i = watch
        /\ HasDefaultTiers
        /\ WatchedSold < ConfiguredMaximum
        /\ \E p \in SteadyPrices : PriceOk(tk, p))
       => \E t2 \in BagToSet(ticks') : t2.i = watch /\ Selling(t2)]_vars

\* The same up to the second target's percent.
SoldOnTowardsSecond ==
  (WatchedSold < MaxCumulative /\ nTicks < MaxTicks)
    ~> (WatchedSelling \/ WatchedSold = MaxCumulative)

\* A tier whose sell failed is attempted again by a later tick.
FailedTierRetried ==
  /\ (FailedLast(1) /\ nTicks < MaxTicks) ~> SellingTier(1)
  /\ (FailedLast(2) /\ nTicks < MaxTicks) ~> SellingTier(2)

\* With sells that fail leaving a tick for each of the monitor's two targets,
\* the position ends at the second target's percent.
EndsAtSecondTarget ==
  [](( /\ SweepsDone
       /\ sequential
       /\ FailedSells + Len(TierTable) <= MaxTicks)
     => WatchedSold = MaxCumulative)

\* C37: with the price staying at the multiplier of the highest tier and
\* ticks scheduled fairly, a position below the table's maximum cumulative
\* percent (85 with the default table) keeps being sold from until it
\* reaches that maximum, and a tier whose sell failed is attempted again by
\* a later tick.
\* Refuted for the first part: at 50 percent, the second target's, no later
\* tick sells anything although the price is at 8.0x; the part about failed
\* sells holds.
C37_EventuallyFullySold ==
  /\ VisitSellsTowardsConfigured
  /\ SoldOnTowardsConfigured
  /\ FailedTierRetried
  /\ <>SweepsDone

\* What holds instead: the position is sold on until the second target's
\* percent, the highest the monitor reads.
ReachesSecondTarget ==
  /\ SoldOnTowardsSecond
  /\ FailedTierRetried
  /\ <>SweepsDone
  /\ EndsAtSecondTarget

\* The quantity of the watched position sold so far: every successful sell
\* of the first target passes tokenAmount * sellPercentage1 / 100 (565), every
\* successful sell of the second passes tokenAmount * (sellPercentage2 -
\* sellPercentage1) / 100 (597-598, soldPercentage being sellPercentage1
\* whenever the test at 593 is reached and holds).
SoldQuantity ==
  sellCount[1] * BandQuantity(activeTokens[watch].tokenAmount, 1, 0)
  + sellCount[2] * BandQuantity(activeTokens[watch].tokenAmount, 2,
                                config.sellPercentage1)

\* The sells awaited or recorded have the quantities SoldQuantity counts.
SoldQuantityExact ==
  /\ \A tk \in BagToSet(ticks) :
        (Selling(tk) /\ tk.i = watch) =>
          tk.sellAmount = BandQuantity(activeTokens[watch].tokenAmount,
                            TierOf(tk.pc),
                            IF tk.pc = "sell1" THEN 0 ELSE config.sellPercentage1)

\* C38: for every position and in every reachable state, under every
\* interleaving of monitor ticks, the quantities of the successful sells add
\* up to tokenAmount * soldPercentage / 100 and so never exceed tokenAmount.
\* Refuted: two overlapping ticks both sell the first band, and the position
\* stands at soldPercentage = sellPercentage1 with twice that quantity sold.
C38_SoldMatchesPercentage ==
  watch <= Len(activeTokens) =>
    /\ SoldQuantityExact
    /\ SoldQuantity * 100
         = activeTokens[watch].tokenAmount * activeTokens[watch].soldPercentage
    /\ SoldQuantity <= activeTokens[watch].tokenAmount

\* The slot of a transaction of the program.
SlotOf(sig) == (CHOOSE si \in SigInfos : si.signature = sig).slot

\* C39 as claimed: within one run with non-decreasing tip markers, the detail
\* of a transaction identifier is fetched at most once across all cycles,
\* also after the identifier has left the cache.
\* Refuted: an identifier whose slot is above the tip marker is protected by
\* the cache alone; once 100 newer identifiers have pushed it out and it is
\* listed again, line 766 lets it through and it is fetched a second time.
C39_FetchedAtMostOnce ==
  \A sig \in Signatures : Occurrences(obs.fetches, sig) <= 1

\* C39 as amended: within one run with non-decreasing tip markers, the detail
\* of an identifier is fetched again only when the identifier has left the
\* cache and its slot is above the tip marker.  So an identifier still in the
\* cache is not fetched again, whether its fetch failed or not (it is added
\* before the fetch), and one whose slot the marker has reached is not
\* fetched again after eviction either, the marker never going back.
C39_RefetchOnlyEvictedAboveMarker ==
  [][/\ \A sig \in Signatures :
          (/\ Occurrences(obs.fetches, sig) >= 1
           /\ Occurrences(obs'.fetches, sig) > Occurrences(obs.fetches, sig))
          => /\ sig \notin Range(poll.processedSignatures)
             /\ SlotOf(sig) > poll.lastCheckedSlot
             /\ Occurrences(obs'.fetches, sig) = Occurrences(obs.fetches, sig) + 1
     /\ poll'.lastCheckedSlot >= poll.lastCheckedSlot]_vars

\* A cycle is over in which an identifier fetched earlier and since evicted
\* was listed again at or below the tip marker, and was not fetched again.
C39_Witness ==
  /\ ScanDone
  /\ \E k \in 1..Len(poll.programTransactions) :
       LET si == poll.programTransactions[k]
       IN /\ si.slot <= obs.marker
          /\ si.signature \notin Range(poll.processedSignatures)
          /\ Occurrences(obs.fetches, si.signature) = 1
  /\ Len(obs.fetches) > CacheLimit

====
